---- MODULE Spec2Model ----
(***************************************************************************)
(* A model of src/elan.py (Python-Elan-API): the ELAN document classes,    *)
(* their mutators, and the parse_xml / to_xml codec.                       *)
(*                                                                         *)
(* Python values are modelled as follows.                                  *)
(*   - a str is a sequence of tokens; a token is either one XML-special    *)
(*     character ("<", ">", "&", the double quote) or a run of plain       *)
(*     characters, so <<"ts1">> is the string ts1;                         *)
(*   - None, where a str may stand, is the one-token sequence None;        *)
(*   - an optional int is <<>> (None) or <<n>>;                            *)
(*   - a call returns a record whose field exc names the exception that    *)
(*     left the call ("ok" when it returned normally).                     *)
(***************************************************************************)
EXTENDS Integers, Sequences, FiniteSets, TLC

VARIABLES
    py,               \* major version of the interpreter running the code
    ts_self,          \* ELANTimeSlot: left operand of a comparison
    ts_other,         \* ELANTimeSlot: right operand of a comparison
    ts_ret,           \* the comparison last made and what it returned
    time_order,       \* a stand-alone ELANTimeOrder
    to_added,         \* history: the slots add_time_slot accepted, in order
    to_last,          \* the add_time_slot call last made: slot, prior state, exc
    cv_class,         \* class ELANControlledVocabulary: cv_entries, cv_entries_dict
    cv_obj,           \* the ELANControlledVocabulary objects, by handle
    cv_last,          \* the add_cv_entry call last made: target, entry, prior state, exc
    lt_obj,           \* an ELANLinguisticType object (NoObject before the first)
    con_obj,          \* an ELANConstraint object (NoObject before the first)
    lt_last,          \* the call last made on either: arguments, prior object, exc
    file_class,       \* class ELANFile: the lists and dictionaries it holds
    elan_file,        \* the ELANFile object at hand (NoObject before the first)
    xml_text,         \* what to_xml last returned for elan_file
    elan_file2,       \* the ELANFile object decoded from xml_text
    file_last,        \* the call last made on the document: arguments, prior state, exc
    inserted          \* history: the names of the properties of elan_file, in the
                      \* order in which they were first inserted

tsVars == <<py, ts_self, ts_other, ts_ret>>
toVars == <<time_order, to_added, to_last>>
cvVars == <<cv_class, cv_obj, cv_last>>
ltVars == <<lt_obj, con_obj, lt_last>>
efVars == <<file_class, elan_file, xml_text, elan_file2, file_last>>
ordVars == <<inserted>>
vars == <<tsVars, toVars, cvVars, ltVars, efVars, ordVars>>

\* what a step on one group of variables leaves alone
tsRest == <<toVars, cvVars, ltVars, efVars, ordVars>>
toRest == <<tsVars, cvVars, ltVars, efVars, ordVars>>
cvRest == <<tsVars, toVars, ltVars, efVars, ordVars>>
ltRest == <<tsVars, toVars, cvVars, efVars, ordVars>>
efRest == <<tsVars, toVars, cvVars, ltVars, ordVars>>
ordRest == <<tsVars, toVars, cvVars, ltVars>>

None == <<"<None>">>
NoInt == <<>>
PyTrue == <<"<True>">>
PyFalse == <<"<False>">>
NoObject == [cls |-> "NoneType"]

Range(f) == {f[x] : x \in DOMAIN f}

\* a dict: {} and d[k] = v
EmptyDict == [k \in {} |-> None]
DictSet(d, k, v) == [x \in DOMAIN d \cup {k} |-> IF x = k THEN v ELSE d[x]]

\* an object of a class none of the add_* methods accepts
Foreign == [cls |-> "str"]

(***************************************************************************)
(* A DOM element as xml.dom.minidom hands it over: its tag, its attributes *)
(* in document order as <<name, value>> pairs, its element children (text  *)
(* and comment nodes between elements are skipped by every loop of the     *)
(* code), and the data of its first child when that is a text node (None   *)
(* otherwise).                                                             *)
(***************************************************************************)
Element(tagName, attrs, kids, text) ==
    [tagName |-> tagName, attrs |-> attrs, kids |-> kids, text |-> text]

hasAttribute(node, name) == \E i \in 1..Len(node.attrs) : node.attrs[i][1] = name

\* minidom answers "" for an attribute the element does not have
getAttribute(node, name) ==
    IF hasAttribute(node, name)
    THEN node.attrs[CHOOSE i \in 1..Len(node.attrs) : node.attrs[i][1] = name][2]
    ELSE <<>>

\* the idiom "getAttribute if hasAttribute else None" of the factories
optAttribute(node, name) ==
    IF hasAttribute(node, name) THEN getAttribute(node, name) ELSE None

\* the attribute name="value", or nothing when the value is None
Attr(name, value) == IF value = None THEN <<>> ELSE <<<<name, value>>>>

(***************************************************************************)
(* Bounds of the model.                                                    *)
(***************************************************************************)
NumSlotIds == 3
NumEntryValues == 3

SlotIdOf(i) ==
    CASE i = 1 -> <<"ts1">> [] i = 2 -> <<"ts2">> [] i = 3 -> <<"ts3">>
      [] i = 4 -> <<"ts4">> [] OTHER -> <<"ts5">>
TimeValues == {NoInt, <<0>>, <<1000>>}

(***************************************************************************)
(* Python's ordering of two optional ints.  Python 3 raises TypeError when *)
(* None meets an ordering operator; Python 2 orders None before every int. *)
(***************************************************************************)
PyBool(b) == IF b THEN "True" ELSE "False"

PyLess(x, y, ver) ==
    IF x # NoInt /\ y # NoInt THEN PyBool(x[1] < y[1])
    ELSE IF ver = 3 THEN "TypeError"
    ELSE PyBool(x = NoInt /\ y # NoInt)

PyGreater(x, y, ver) == PyLess(y, x, ver)

\* a or b, where a is a bool and b is evaluated only when a is False
PyOr(a, b) == IF a = "True" THEN "True" ELSE b

(***************************************************************************)
(* class ELANTimeSlot                                                      *)
(***************************************************************************)
ELANTimeSlot(ID, time_value) ==
    [cls |-> "ELANTimeSlot", ID |-> ID, time_value |-> time_value]

TimeSlot_has_time_value(s) == s.time_value # NoInt

TimeSlot_set_time_value(s, time_value) == [s EXCEPT !.time_value = time_value]

TimeSlot__gt__(self, other, ver) ==
    PyGreater(self.time_value, other.time_value, ver)

TimeSlot__lt__(self, other, ver) ==
    PyLess(self.time_value, other.time_value, ver)

TimeSlot__ge__(self, other, ver) ==
    PyOr(PyBool(self.time_value = other.time_value),
         PyGreater(self.time_value, other.time_value, ver))

TimeSlot__le__(self, other, ver) ==
    PyOr(PyBool(self.time_value = other.time_value),
         PyLess(self.time_value, other.time_value, ver))

Slots == {ELANTimeSlot(SlotIdOf(i), v) : i \in 1..NumSlotIds, v \in TimeValues}

(***************************************************************************)
(* class ELANTimeOrder                                                     *)
(***************************************************************************)
ELANTimeOrder == [time_slots |-> <<>>, time_slots_dict |-> EmptyDict]

TimeOrder__contains__(self, time_slot) ==
    time_slot.ID \in DOMAIN self.time_slots_dict

TimeOrder_get_time_slot_by_id(self, ID) ==
    IF ID \in DOMAIN self.time_slots_dict
    THEN [exc |-> "ok", ret |-> self.time_slots_dict[ID]]
    ELSE [exc |-> "KeyError", ret |-> None]

\* position is a Python index: 0 is the first slot
TimeOrder_get_time_slot_by_position(self, position) ==
    IF position \in 0..(Len(self.time_slots) - 1)
    THEN [exc |-> "ok", ret |-> self.time_slots[position + 1]]
    ELSE [exc |-> "IndexError", ret |-> None]

\* add_time_slot without its test of the ID: what it would do had the
\* "if time_slot in self" guard been left out
TimeOrder_add_time_slot_unguarded(self, time_slot) ==
    IF time_slot.cls = "ELANTimeSlot"
    THEN [exc |-> "ok",
          self |-> [time_slots |-> Append(self.time_slots, time_slot),
                    time_slots_dict |->
                        DictSet(self.time_slots_dict, time_slot.ID, time_slot)]]
    ELSE [exc |-> "TypeError", self |-> self]

TimeOrder_add_time_slot(self, time_slot) ==
    IF time_slot.cls = "ELANTimeSlot"
    THEN IF TimeOrder__contains__(self, time_slot)
         THEN [exc |-> "KeyError", self |-> self]
         ELSE [exc |-> "ok",
               self |-> [time_slots |-> Append(self.time_slots, time_slot),
                         time_slots_dict |->
                             DictSet(self.time_slots_dict, time_slot.ID, time_slot)]]
    ELSE [exc |-> "TypeError", self |-> self]

(***************************************************************************)
(* class ELANControlledVocabularyEntry, class ELANControlledVocabulary     *)
(*                                                                         *)
(* cv_entries and cv_entries_dict are attributes of the class (lines 1901  *)
(* and 1904); __init__ assigns neither, so self.cv_entries is the class's  *)
(* list for every vocabulary.  The model holds them in one record, called  *)
(* cls_ in the methods below.                                              *)
(***************************************************************************)
ELANControlledVocabularyEntry(value, cv_ref, description, ext_ref) ==
    [cls |-> "ELANControlledVocabularyEntry", value |-> value, cv_ref |-> cv_ref,
     description |-> description, ext_ref |-> ext_ref]

ELANControlledVocabulary(cv_id, description, ext_ref) ==
    [cls |-> "ELANControlledVocabulary", cv_id |-> cv_id,
     description |-> description, ext_ref |-> ext_ref]

CVClassAttributes == [cv_entries |-> <<>>, cv_entries_dict |-> EmptyDict]

CV_set_ext_ref(self, ext_ref) == [self EXCEPT !.ext_ref = ext_ref]

\* add_cv_entry with the test of ext_ref left out
CV_add_cv_entry_unguarded(self, cls_, cv_entry) ==
    IF cv_entry.cls # "ELANControlledVocabularyEntry"
    THEN [exc |-> "TypeError", cls_ |-> cls_]
    ELSE IF cv_entry.value \notin DOMAIN cls_.cv_entries_dict
    THEN [exc |-> "ok",
          cls_ |-> [cv_entries |-> Append(cls_.cv_entries, cv_entry),
                    cv_entries_dict |->
                        DictSet(cls_.cv_entries_dict, cv_entry.value, cv_entry)]]
    ELSE [exc |-> "ok", cls_ |-> cls_]

\* add_cv_entry with the test of the value left out: every entry is stored
CV_add_cv_entry_redundant(self, cls_, cv_entry) ==
    IF self.ext_ref = None
    THEN IF cv_entry.cls # "ELANControlledVocabularyEntry"
         THEN [exc |-> "TypeError", cls_ |-> cls_]
         ELSE [exc |-> "ok",
               cls_ |-> [cv_entries |-> Append(cls_.cv_entries, cv_entry),
                         cv_entries_dict |->
                             DictSet(cls_.cv_entries_dict, cv_entry.value, cv_entry)]]
    ELSE [exc |-> "RuntimeError", cls_ |-> cls_]

CV_add_cv_entry(self, cls_, cv_entry) ==
    IF self.ext_ref = None
    THEN IF cv_entry.cls # "ELANControlledVocabularyEntry"
         THEN [exc |-> "TypeError", cls_ |-> cls_]
         ELSE IF cv_entry.value \notin DOMAIN cls_.cv_entries_dict
         THEN [exc |-> "ok",
               cls_ |-> [cv_entries |-> Append(cls_.cv_entries, cv_entry),
                         cv_entries_dict |->
                             DictSet(cls_.cv_entries_dict, cv_entry.value, cv_entry)]]
         ELSE [exc |-> "ok", cls_ |-> cls_]
    ELSE [exc |-> "RuntimeError", cls_ |-> cls_]

CV_get_cv_entry_by_value(self, cls_, value) ==
    IF value \in DOMAIN cls_.cv_entries_dict
    THEN cls_.cv_entries_dict[value]
    ELSE None

(***************************************************************************)
(* class ELANLinguisticType                                                *)
(***************************************************************************)
LinguisticType__init__(ID, time_alignable, constraints, graphic_ref, cv_ref, external_ref, lexicon_ref) ==
    LET self == [cls |-> "ELANLinguisticType", linguistic_type_id |-> ID,
                 time_alignable |-> None, constraints |-> constraints,
                 graphic_references |-> graphic_ref,
                 controlled_vocabulary_ref |-> cv_ref,
                 external_ref |-> external_ref, lexicon_ref |-> lexicon_ref]
        made(flag) == [exc |-> "ok", self |-> [self EXCEPT !.time_alignable = flag]]
        raised == [exc |-> "RuntimeError", self |-> NoObject]
    IN  IF constraints = None
        THEN IF time_alignable = <<"true">> THEN made(PyTrue)
             ELSE IF time_alignable = <<"false">> THEN made(PyFalse)
             ELSE raised
        ELSE IF constraints = <<"None">> THEN made(PyTrue)
        ELSE IF constraints = <<"Time_Subdivision">> THEN made(PyTrue)
        ELSE IF constraints = <<"Symbolic_Subdivision">> THEN made(PyFalse)
        ELSE IF constraints = <<"Symbolic_Association">> THEN made(PyFalse)
        ELSE IF constraints = <<"Included_In">> THEN made(PyTrue)
        ELSE raised

LinguisticType_from_xml(xml_node) ==
    IF xml_node.tagName # "LINGUISTIC_TYPE"
    THEN [exc |-> "RuntimeError", self |-> NoObject]
    ELSE IF ~hasAttribute(xml_node, "LINGUISTIC_TYPE_ID")
    THEN [exc |-> "RuntimeError", self |-> NoObject]
    ELSE LinguisticType__init__(getAttribute(xml_node, "LINGUISTIC_TYPE_ID"),
                                optAttribute(xml_node, "TIME_ALIGNABLE"),
                                optAttribute(xml_node, "CONSTRAINTS"),
                                optAttribute(xml_node, "GRAPHIC_REFERENCES"),
                                optAttribute(xml_node, "CONTROLLED_VOCABULARY_REF"),
                                optAttribute(xml_node, "EXT_REF"),
                                optAttribute(xml_node, "LEXICON_REF"))

\* self.constraints is assigned before the stereotype is looked at
LinguisticType_set_constraints(self, constraints) ==
    LET set == [self EXCEPT !.constraints = constraints]
        done(flag) == [exc |-> "ok", self |-> [set EXCEPT !.time_alignable = flag]]
    IN  IF constraints = None THEN done(PyTrue)
        ELSE IF constraints = <<"Time_Subdivision">> THEN done(PyTrue)
        ELSE IF constraints = <<"Symbolic_Subdivision">> THEN done(PyFalse)
        ELSE IF constraints = <<"Symbolic_Association">> THEN done(PyFalse)
        ELSE IF constraints = <<"Included_In">> THEN done(PyTrue)
        ELSE [exc |-> "RuntimeError", self |-> set]

\* line 1495 spells the stereotype "Time_Subdivison"; the message of line
\* 1500 concatenates self.constraints, which raises TypeError when it is None
LinguisticType_set_time_alignable(self, time_alignable) ==
    IF /\ time_alignable = PyTrue
       /\ self.constraints # None
       /\ self.constraints # <<"Time_Subdivison">>
       /\ self.constraints # <<"Included_In">>
    THEN [exc |-> "RuntimeError", self |-> self]
    ELSE IF /\ time_alignable = PyFalse
            /\ \/ self.constraints = None
               \/ self.constraints = <<"Symbolic_Subdivision">>
               \/ self.constraints = <<"Symbolic_Association">>
    THEN [exc |-> IF self.constraints = None THEN "TypeError" ELSE "RuntimeError",
          self |-> self]
    ELSE [exc |-> "ok", self |-> [self EXCEPT !.time_alignable = time_alignable]]

LinguisticType_is_time_alignable(self) == PyBool(self.time_alignable = PyTrue)

(***************************************************************************)
(* class ELANConstraint                                                    *)
(***************************************************************************)
ELANConstraint(stereotype, description) ==
    [cls |-> "ELANConstraint", stereotype |-> stereotype, description |-> description]

Constraint_from_xml(xml_node) ==
    IF xml_node.tagName # "CONSTRAINT"
    THEN [exc |-> "RuntimeError", self |-> NoObject]
    ELSE IF ~hasAttribute(xml_node, "STEREOTYPE")
    THEN [exc |-> "RuntimeError", self |-> NoObject]
    ELSE [exc |-> "ok",
          self |-> ELANConstraint(getAttribute(xml_node, "STEREOTYPE"),
                                  optAttribute(xml_node, "DESCRIPTION"))]

\* a stereotype none of the branches names falls off the end: None
Constraint_is_time_alignable(self) ==
    IF self.stereotype = <<"Time_Subdivision">> THEN "True"
    ELSE IF self.stereotype = <<"Symbolic_Subdivision">> THEN "False"
    ELSE IF self.stereotype = <<"Symbolic_Association">> THEN "False"
    ELSE IF self.stereotype = <<"Included_In">> THEN "True"
    ELSE "None"

Constraint_is_subdivision(self) ==
    IF self.stereotype = <<"Time_Subdivision">> THEN "True"
    ELSE IF self.stereotype = <<"Symbolic_Subdivision">> THEN "True"
    ELSE IF self.stereotype = <<"Symbolic_Association">> THEN "False"
    ELSE IF self.stereotype = <<"Included_In">> THEN "True"
    ELSE "None"

(***************************************************************************)
(* Strings on their way into and out of XML.                               *)
(***************************************************************************)
\* xml.sax.saxutils.escape: &, < and > are replaced, the double quote is not
escape(data) ==
    [i \in 1..Len(data) |->
        CASE data[i] = "&" -> "&amp;"
          [] data[i] = "<" -> "&lt;"
          [] data[i] = ">" -> "&gt;"
          [] OTHER -> data[i]]

\* what the parser makes of character data: entity references become characters
unescape(data) ==
    [i \in 1..Len(data) |->
        CASE data[i] = "&amp;" -> "&"
          [] data[i] = "&lt;" -> "<"
          [] data[i] = "&gt;" -> ">"
          [] OTHER -> data[i]]

\* EscapedAttr as it would be if it wrote the attribute without asking
\* whether there is a value
EscapedAttr_always(name, value) ==
    <<<<name, IF value = None THEN <<>> ELSE escape(value)>>>>

\* NAME="value" when there is a value, written through escape()
EscapedAttr(name, value) == IF value = None THEN <<>> ELSE <<<<name, escape(value)>>>>

\* the character data between a start tag and its end tag: nothing written
\* leaves the element without a text node
Text(data) == IF data = <<>> THEN None ELSE data

Digits == <<"0", "1", "2", "3", "4", "5", "6", "7", "8", "9">>

\* str(n) of an int: its decimal digits, one token each
RECURSIVE str(_)
str(n) ==
    IF n < 0 THEN <<"-">> \o str(0 - n)
    ELSE IF n < 10 THEN <<Digits[n + 1]>>
    ELSE Append(str(n \div 10), Digits[(n % 10) + 1])

IsDecimal(s) == s # <<>> /\ \A i \in 1..Len(s) : \E d \in 1..10 : Digits[d] = s[i]

RECURSIVE DecimalValue(_)
DecimalValue(s) ==
    IF s = <<>> THEN 0
    ELSE 10 * DecimalValue(SubSeq(s, 1, Len(s) - 1))
         + (CHOOSE d \in 1..10 : Digits[d] = s[Len(s)]) - 1

\* int(s) of a str: the value of a decimal literal, ValueError otherwise
int(s) ==
    IF IsDecimal(s) THEN [exc |-> "ok", ret |-> DecimalValue(s)]
    ELSE IF s # <<>> /\ s[1] = "-" /\ IsDecimal(Tail(s))
    THEN [exc |-> "ok", ret |-> 0 - DecimalValue(Tail(s))]
    ELSE [exc |-> "ValueError", ret |-> 0]

(***************************************************************************)
(* to_xml() returns the text of an element.  The model keeps that text as  *)
(* a tree whose attribute values and character data are the characters     *)
(* written between the quotes and between the tags; dom.parseString turns  *)
(* it into DOM elements, or fails when the text is not well-formed: a      *)
(* double quote, < or a bare & inside an attribute value, < or a bare &    *)
(* inside character data.                                                  *)
(***************************************************************************)
RECURSIVE WellFormed(_)
WellFormed(node) ==
    /\ \A i \in 1..Len(node.attrs) :
          \A j \in 1..Len(node.attrs[i][2]) : node.attrs[i][2][j] \notin {"\"", "<", "&"}
    /\ node.text # None => \A j \in 1..Len(node.text) : node.text[j] \notin {"<", "&"}
    /\ \A k \in 1..Len(node.kids) : WellFormed(node.kids[k])

RECURSIVE Parsed(_)
Parsed(node) ==
    Element(node.tagName,
            [i \in 1..Len(node.attrs) |-> <<node.attrs[i][1], unescape(node.attrs[i][2])>>],
            [k \in 1..Len(node.kids) |-> Parsed(node.kids[k])],
            IF node.text = None THEN None ELSE unescape(node.text))

dom_parseString(node) ==
    IF WellFormed(node) THEN [exc |-> "ok", ret |-> Parsed(node)]
    ELSE [exc |-> "ExpatError", ret |-> NoObject]

\* the exception that ends a loop over calls made in order: that of the
\* first call that raised
FirstExc(rs) ==
    IF \A i \in 1..Len(rs) : rs[i].exc = "ok" THEN "ok"
    ELSE rs[CHOOSE i \in 1..Len(rs) :
                rs[i].exc # "ok" /\ \A j \in 1..(i - 1) : rs[j].exc = "ok"].exc

(***************************************************************************)
(* class ELANTimeSlot, class ELANTimeOrder: from_xml and to_xml            *)
(***************************************************************************)
TimeSlot_from_xml(xml_node) ==
    IF xml_node.tagName # "TIME_SLOT"
    THEN [exc |-> "RuntimeError", self |-> NoObject]
    ELSE IF ~hasAttribute(xml_node, "TIME_SLOT_ID")
    THEN [exc |-> "RuntimeError", self |-> NoObject]
    ELSE IF hasAttribute(xml_node, "TIME_VALUE")
    THEN LET v == int(getAttribute(xml_node, "TIME_VALUE")) IN
         IF v.exc # "ok" THEN [exc |-> v.exc, self |-> NoObject]
         ELSE [exc |-> "ok",
               self |-> ELANTimeSlot(getAttribute(xml_node, "TIME_SLOT_ID"), <<v.ret>>)]
    ELSE [exc |-> "ok",
          self |-> ELANTimeSlot(getAttribute(xml_node, "TIME_SLOT_ID"), NoInt)]

TimeSlot_to_xml(self) ==
    IF self.ID = None THEN [exc |-> "AttributeError", ret |-> NoObject]
    ELSE [exc |-> "ok",
          ret |-> Element("TIME_SLOT",
                          <<<<"TIME_SLOT_ID", escape(self.ID)>>>>
                              \o (IF TimeSlot_has_time_value(self)
                                  THEN <<<<"TIME_VALUE", escape(str(self.time_value[1]))>>>>
                                  ELSE <<>>),
                          <<>>, None)]

\* the loop of ELANTimeOrder.from_xml from its i-th child on
RECURSIVE TimeOrder_from_xml_loop(_, _, _)
TimeOrder_from_xml_loop(kids, i, time_order_) ==
    IF i > Len(kids) THEN [exc |-> "ok", self |-> time_order_]
    ELSE IF kids[i].tagName # "TIME_SLOT"
    THEN [exc |-> "RuntimeError", self |-> NoObject]
    ELSE LET s == TimeSlot_from_xml(kids[i]) IN
         IF s.exc # "ok" THEN [exc |-> s.exc, self |-> NoObject]
         ELSE LET a == TimeOrder_add_time_slot(time_order_, s.self) IN
              IF a.exc # "ok" THEN [exc |-> a.exc, self |-> NoObject]
              ELSE TimeOrder_from_xml_loop(kids, i + 1, a.self)

TimeOrder_from_xml(xml_node) ==
    IF xml_node.tagName # "TIME_ORDER"
    THEN [exc |-> "RuntimeError", self |-> NoObject]
    ELSE TimeOrder_from_xml_loop(xml_node.kids, 1, ELANTimeOrder)

TimeOrder_to_xml(self) ==
    LET rs == [i \in 1..Len(self.time_slots) |-> TimeSlot_to_xml(self.time_slots[i])] IN
    IF FirstExc(rs) # "ok" THEN [exc |-> FirstExc(rs), ret |-> NoObject]
    ELSE [exc |-> "ok",
          ret |-> Element("TIME_ORDER", <<>>, [i \in 1..Len(rs) |-> rs[i].ret], None)]

(***************************************************************************)
(* class ELANAlignableAnnotation, class ELANRefAnnotation                  *)
(*                                                                         *)
(* The references an object keeps to its tier and to its document are not  *)
(* part of the records.                                                    *)
(***************************************************************************)
\* __init__ takes external_ref and assigns it to nothing: the attribute a
\* new object answers with is the class's, None
ELANAlignableAnnotation(annotation_id, annotation_value, start_time_slot, end_time_slot, svg_ref, external_ref) ==
    [cls |-> "ELANAlignableAnnotation", annotation_id |-> annotation_id,
     annotation_value |-> annotation_value, start_time_slot |-> start_time_slot,
     end_time_slot |-> end_time_slot, svg_ref |-> svg_ref, external_ref |-> None]

ELANRefAnnotation(annotation_id, annotation_value, annotation_ref, previous_annotation, external_ref) ==
    [cls |-> "ELANRefAnnotation", annotation_id |-> annotation_id,
     annotation_value |-> annotation_value, annotation_ref |-> annotation_ref,
     previous_annotation |-> previous_annotation, external_ref |-> external_ref]

Annotation_is_empty(self) ==
    self.annotation_value = None \/ self.annotation_value = <<>>

\* the value both factories read from the first element child: firstChild of
\* an element without element children is None or a text node, and the
\* attribute the code asks it for does not exist
AnnotationValue_from_xml(xml_node) ==
    IF xml_node.kids = <<>> THEN [exc |-> "AttributeError", ret |-> None]
    ELSE IF xml_node.kids[1].tagName # "ANNOTATION_VALUE"
    THEN [exc |-> "RuntimeError", ret |-> None]
    ELSE [exc |-> "ok",
          ret |-> IF xml_node.kids[1].text # None THEN xml_node.kids[1].text ELSE <<>>]

AlignableAnnotation_from_xml(xml_node) ==
    IF xml_node.tagName # "ALIGNABLE_ANNOTATION"
    THEN [exc |-> "RuntimeError", self |-> NoObject]
    ELSE IF \/ ~hasAttribute(xml_node, "ANNOTATION_ID")
            \/ ~hasAttribute(xml_node, "TIME_SLOT_REF1")
            \/ ~hasAttribute(xml_node, "TIME_SLOT_REF2")
    THEN [exc |-> "RuntimeError", self |-> NoObject]
    ELSE LET v == AnnotationValue_from_xml(xml_node) IN
         IF v.exc # "ok" THEN [exc |-> v.exc, self |-> NoObject]
         ELSE [exc |-> "ok",
               self |-> ELANAlignableAnnotation(
                            getAttribute(xml_node, "ANNOTATION_ID"), v.ret,
                            getAttribute(xml_node, "TIME_SLOT_REF1"),
                            getAttribute(xml_node, "TIME_SLOT_REF2"),
                            optAttribute(xml_node, "SVG_REF"),
                            optAttribute(xml_node, "EXTERNAL_REF"))]

AnnotationValue_to_xml(self) ==
    Element("ANNOTATION_VALUE", <<>>, <<>>,
            IF Annotation_is_empty(self) THEN None
            ELSE Text(escape(self.annotation_value)))

AlignableAnnotation_to_xml(self) ==
    IF None \in {self.annotation_id, self.start_time_slot, self.end_time_slot}
    THEN [exc |-> "AttributeError", ret |-> NoObject]
    ELSE [exc |-> "ok",
          ret |-> Element("ANNOTATION", <<>>,
                    <<Element("ALIGNABLE_ANNOTATION",
                              <<<<"ANNOTATION_ID", escape(self.annotation_id)>>,
                                <<"TIME_SLOT_REF1", escape(self.start_time_slot)>>,
                                <<"TIME_SLOT_REF2", escape(self.end_time_slot)>>>>
                                  \o EscapedAttr("SVG_REF", self.svg_ref)
                                  \o EscapedAttr("EXT_REF", self.external_ref),
                              <<AnnotationValue_to_xml(self)>>, None)>>,
                    None)]

RefAnnotation_from_xml(xml_node) ==
    IF xml_node.tagName # "REF_ANNOTATION"
    THEN [exc |-> "RuntimeError", self |-> NoObject]
    ELSE IF \/ ~hasAttribute(xml_node, "ANNOTATION_ID")
            \/ ~hasAttribute(xml_node, "ANNOTATION_REF")
    THEN [exc |-> "RuntimeError", self |-> NoObject]
    ELSE LET v == AnnotationValue_from_xml(xml_node) IN
         IF v.exc # "ok" THEN [exc |-> v.exc, self |-> NoObject]
         ELSE [exc |-> "ok",
               self |-> ELANRefAnnotation(
                            getAttribute(xml_node, "ANNOTATION_ID"), v.ret,
                            getAttribute(xml_node, "ANNOTATION_REF"),
                            optAttribute(xml_node, "PREVIOUS_ANNOTATION"),
                            optAttribute(xml_node, "EXTERNAL_REF"))]

RefAnnotation_to_xml(self) ==
    IF None \in {self.annotation_id, self.annotation_ref}
    THEN [exc |-> "AttributeError", ret |-> NoObject]
    ELSE [exc |-> "ok",
          ret |-> Element("ANNOTATION", <<>>,
                    <<Element("REF_ANNOTATION",
                              <<<<"ANNOTATION_ID", escape(self.annotation_id)>>,
                                <<"ANNOTATION_REF", escape(self.annotation_ref)>>>>
                                  \o EscapedAttr("PREVIOUS_ANNOTATION", self.previous_annotation)
                                  \o EscapedAttr("EXT_REF", self.external_ref),
                              <<AnnotationValue_to_xml(self)>>, None)>>,
                    None)]

\* annotation.to_xml(): the method of the object's class
Annotation_to_xml(self) ==
    IF self.cls = "ELANAlignableAnnotation" THEN AlignableAnnotation_to_xml(self)
    ELSE IF self.cls = "ELANRefAnnotation" THEN RefAnnotation_to_xml(self)
    ELSE [exc |-> "AttributeError", ret |-> NoObject]

(***************************************************************************)
(* class ELANTier                                                          *)
(***************************************************************************)
ELANTier(tier_id, linguistic_type, participant, annotator, default_locale, parent_tier_ref) ==
    [cls |-> "ELANTier", tier_id |-> tier_id, linguistic_type |-> linguistic_type,
     participant |-> participant, annotator |-> annotator,
     default_locale |-> default_locale, parent_tier_ref |-> parent_tier_ref,
     annotations |-> <<>>, annotations_dict |-> EmptyDict]

Tier_add_annotation(self, annotation) ==
    [self EXCEPT !.annotations = Append(@, annotation)]

\* the body of the loop of ELANTier.from_xml: the annotation of one child
Tier_from_xml_child(child_node) ==
    IF child_node.tagName # "ANNOTATION"
    THEN [exc |-> "RuntimeError", self |-> NoObject]
    ELSE IF child_node.kids = <<>>
    THEN [exc |-> "AttributeError", self |-> NoObject]
    ELSE IF child_node.kids[1].tagName = "ALIGNABLE_ANNOTATION"
    THEN AlignableAnnotation_from_xml(child_node.kids[1])
    ELSE IF child_node.kids[1].tagName = "REF_ANNOTATION"
    THEN RefAnnotation_from_xml(child_node.kids[1])
    ELSE [exc |-> "RuntimeError", self |-> NoObject]

Tier_from_xml(xml_node) ==
    IF xml_node.tagName # "TIER"
    THEN [exc |-> "RuntimeError", self |-> NoObject]
    ELSE IF \/ ~hasAttribute(xml_node, "TIER_ID")
            \/ ~hasAttribute(xml_node, "LINGUISTIC_TYPE_REF")
    THEN [exc |-> "RuntimeError", self |-> NoObject]
    ELSE LET rs == [i \in 1..Len(xml_node.kids) |-> Tier_from_xml_child(xml_node.kids[i])]
             tier == ELANTier(getAttribute(xml_node, "TIER_ID"),
                              getAttribute(xml_node, "LINGUISTIC_TYPE_REF"),
                              optAttribute(xml_node, "PARTICIPANT"),
                              optAttribute(xml_node, "ANNOTATOR"),
                              optAttribute(xml_node, "DEFAULT_LOCALE"),
                              optAttribute(xml_node, "PARENT_REF"))
         IN  IF FirstExc(rs) # "ok" THEN [exc |-> FirstExc(rs), self |-> NoObject]
             ELSE [exc |-> "ok",
                   self |-> [tier EXCEPT !.annotations = [i \in 1..Len(rs) |-> rs[i].self]]]

Tier_to_xml(self) ==
    IF None \in {self.tier_id, self.linguistic_type}
    THEN [exc |-> "AttributeError", ret |-> NoObject]
    ELSE LET rs == [i \in 1..Len(self.annotations) |-> Annotation_to_xml(self.annotations[i])] IN
         IF FirstExc(rs) # "ok" THEN [exc |-> FirstExc(rs), ret |-> NoObject]
         ELSE [exc |-> "ok",
               ret |-> Element("TIER",
                               <<<<"TIER_ID", escape(self.tier_id)>>>>
                                   \o EscapedAttr("PARTICIPANT", self.participant)
                                   \o EscapedAttr("ANNOTATOR", self.annotator)
                                   \o <<<<"LINGUISTIC_TYPE_REF", escape(self.linguistic_type)>>>>
                                   \o EscapedAttr("DEFAULT_LOCALE", self.default_locale)
                                   \o EscapedAttr("PARENT_REF", self.parent_tier_ref),
                               [i \in 1..Len(rs) |-> rs[i].ret], None)]

(***************************************************************************)
(* class ELANLinguisticType, class ELANConstraint: to_xml                  *)
(***************************************************************************)
\* graphic_references holds what the constructor was given; a decoded type
\* holds the attribute's text, which is not the object True
LinguisticType_to_xml(self) ==
    IF self.linguistic_type_id = None
    THEN [exc |-> "AttributeError", ret |-> NoObject]
    ELSE [exc |-> "ok",
          ret |-> Element("LINGUISTIC_TYPE",
                    <<<<"LINGUISTIC_TYPE_ID", escape(self.linguistic_type_id)>>>>
                        \o (IF self.time_alignable = None THEN <<>>
                            ELSE IF LinguisticType_is_time_alignable(self) = "True"
                                 THEN <<<<"TIME_ALIGNABLE", <<"true">>>>>>
                                 ELSE <<<<"TIME_ALIGNABLE", <<"false">>>>>>)
                        \o EscapedAttr("CONSTRAINTS", self.constraints)
                        \o (IF self.graphic_references = None THEN <<>>
                            ELSE IF self.graphic_references = PyTrue
                                 THEN <<<<"GRAPHIC_REFERENCES", <<"true">>>>>>
                                 ELSE <<<<"GRAPHIC_REFERENCES", <<"false">>>>>>)
                        \o EscapedAttr("CONTROLLED_VOCABULARY_REF", self.controlled_vocabulary_ref)
                        \o EscapedAttr("EXT_REF", self.external_ref)
                        \o EscapedAttr("LEXICON_REF", self.lexicon_ref),
                    <<>>, None)]

Constraint_to_xml(self) ==
    IF self.stereotype = None THEN [exc |-> "AttributeError", ret |-> NoObject]
    ELSE [exc |-> "ok",
          ret |-> Element("CONSTRAINT",
                          <<<<"STEREOTYPE", escape(self.stereotype)>>>>
                              \o EscapedAttr("DESCRIPTION", self.description),
                          <<>>, None)]

(***************************************************************************)
(* class ELANExternalReference                                             *)
(***************************************************************************)
ExternalReferenceTypes ==
    {<<"iso12620">>, <<"ecv">>, <<"cve_id">>, <<"lexen_id">>, <<"resource_url">>}

ELANExternalReference(ext_ref_id, ext_ref_type, value) ==
    IF ext_ref_type \notin ExternalReferenceTypes
    THEN [exc |-> "RuntimeError", self |-> NoObject]
    ELSE [exc |-> "ok",
          self |-> [cls |-> "ELANExternalReference", ext_ref_id |-> ext_ref_id,
                    ext_ref_type |-> ext_ref_type, value |-> value]]

ExternalReference_from_xml(xml_node) ==
    IF xml_node.tagName # "EXTERNAL_REF"
    THEN [exc |-> "RuntimeError", self |-> NoObject]
    ELSE IF ~hasAttribute(xml_node, "EXT_REF_ID") \/ ~hasAttribute(xml_node, "TYPE")
    THEN [exc |-> "RuntimeError", self |-> NoObject]
    ELSE IF xml_node.text = None
    THEN [exc |-> "RuntimeError", self |-> NoObject]
    ELSE ELANExternalReference(getAttribute(xml_node, "EXT_REF_ID"),
                               getAttribute(xml_node, "TYPE"), xml_node.text)

\* the first thing to_xml does is call self.get_ext_ref_id(), a method the
\* class does not define (its getter is get_id)
ExternalReference_to_xml(self) == [exc |-> "AttributeError", ret |-> NoObject]

(***************************************************************************)
(* class ELANLexiconReference                                              *)
(***************************************************************************)
ELANLexiconReference(lex_ref_id, lex_ref_name, lex_ref_type, url, lexicon_id, lexicon_name, datcat_id, datcat_name) ==
    [cls |-> "ELANLexiconReference", lex_ref_id |-> lex_ref_id,
     lex_ref_name |-> lex_ref_name, lex_ref_type |-> lex_ref_type, url |-> url,
     lexicon_id |-> lexicon_id, lexicon_name |-> lexicon_name,
     datcat_id |-> datcat_id, datcat_name |-> datcat_name]

\* the ID is read from LEX_REF_ID, and the lexicon's name from an attribute
\* called LEXINCON_NAME
LexiconReference_from_xml(xml_node) ==
    IF xml_node.tagName # "LEXICON_REF"
    THEN [exc |-> "RuntimeError", self |-> NoObject]
    ELSE IF \E name \in {"LEX_REF_ID", "NAME", "TYPE", "URL", "LEXICON_ID", "LEXICON_NAME"} :
                ~hasAttribute(xml_node, name)
    THEN [exc |-> "RuntimeError", self |-> NoObject]
    ELSE [exc |-> "ok",
          self |-> ELANLexiconReference(
                       getAttribute(xml_node, "LEX_REF_ID"),
                       getAttribute(xml_node, "NAME"),
                       getAttribute(xml_node, "TYPE"),
                       getAttribute(xml_node, "URL"),
                       getAttribute(xml_node, "LEXICON_ID"),
                       getAttribute(xml_node, "LEXINCON_NAME"),
                       optAttribute(xml_node, "DATCAT_ID"),
                       optAttribute(xml_node, "DATCAT_NAME"))]

\* the ID is written as LEXICON_REF_ID
LexiconReference_to_xml(self) ==
    IF None \in {self.lex_ref_id, self.lex_ref_name, self.lex_ref_type, self.url,
                 self.lexicon_id, self.lexicon_name}
    THEN [exc |-> "AttributeError", ret |-> NoObject]
    ELSE [exc |-> "ok",
          ret |-> Element("LEXICON_REF",
                          <<<<"LEXICON_REF_ID", escape(self.lex_ref_id)>>,
                            <<"NAME", escape(self.lex_ref_name)>>,
                            <<"TYPE", escape(self.lex_ref_type)>>,
                            <<"URL", escape(self.url)>>,
                            <<"LEXICON_ID", escape(self.lexicon_id)>>,
                            <<"LEXICON_NAME", escape(self.lexicon_name)>>>>
                              \o EscapedAttr("DATCAT_ID", self.datcat_id)
                              \o EscapedAttr("DATCAT_NAME", self.datcat_name),
                          <<>>, None)]

(***************************************************************************)
(* class ELANMediaDescriptor, class ELANLinkedFileDescriptor               *)
(***************************************************************************)
ELANMediaDescriptor(media_url, mime_type, relative_media_url, time_origin, extracted_from) ==
    [cls |-> "ELANMediaDescriptor", media_url |-> media_url, mime_type |-> mime_type,
     relative_media_url |-> relative_media_url, time_origin |-> time_origin,
     extracted_from |-> extracted_from]

MediaDescriptor_from_xml(xml_node) ==
    IF xml_node.tagName # "MEDIA_DESCRIPTOR"
    THEN [exc |-> "RuntimeError", self |-> NoObject]
    ELSE IF ~hasAttribute(xml_node, "MEDIA_URL") \/ ~hasAttribute(xml_node, "MIME_TYPE")
    THEN [exc |-> "RuntimeError", self |-> NoObject]
    ELSE [exc |-> "ok",
          self |-> ELANMediaDescriptor(getAttribute(xml_node, "MEDIA_URL"),
                                       getAttribute(xml_node, "MIME_TYPE"),
                                       optAttribute(xml_node, "RELATIVE_MEDIA_URL"),
                                       optAttribute(xml_node, "TIME_ORIGIN"),
                                       optAttribute(xml_node, "EXTRACTED_FROM"))]

\* escape(None) of a required field that was never given raises
MediaDescriptor_to_xml(self) ==
    IF None \in {self.media_url, self.mime_type}
    THEN [exc |-> "AttributeError", ret |-> NoObject]
    ELSE
    [exc |-> "ok",
     ret |-> Element("MEDIA_DESCRIPTOR",
                     EscapedAttr("MEDIA_URL", self.media_url)
                         \o EscapedAttr("RELATIVE_MEDIA_URL", self.relative_media_url)
                         \o EscapedAttr("MIME_TYPE", self.mime_type)
                         \o EscapedAttr("TIME_ORIGIN", self.time_origin)
                         \o EscapedAttr("EXTRACTED_FROM", self.extracted_from),
                     <<>>, None)]

ELANLinkedFileDescriptor(link_url, mime_type, relative_link_url, time_origin, associated_with) ==
    [cls |-> "ELANLinkedFileDescriptor", link_url |-> link_url, mime_type |-> mime_type,
     relative_link_url |-> relative_link_url, time_origin |-> time_origin,
     associated_with |-> associated_with]

LinkedFileDescriptor_from_xml(xml_node) ==
    IF xml_node.tagName # "LINKED_FILE_DESCRIPTOR"
    THEN [exc |-> "RuntimeError", self |-> NoObject]
    ELSE IF ~hasAttribute(xml_node, "LINK_URL") \/ ~hasAttribute(xml_node, "MIME_TYPE")
    THEN [exc |-> "RuntimeError", self |-> NoObject]
    ELSE [exc |-> "ok",
          self |-> ELANLinkedFileDescriptor(getAttribute(xml_node, "LINK_URL"),
                                            getAttribute(xml_node, "MIME_TYPE"),
                                            optAttribute(xml_node, "RELATIVE_LINK_URL"),
                                            optAttribute(xml_node, "TIME_ORIGIN"),
                                            optAttribute(xml_node, "ASSOCIATED_WITH"))]

\* to_xml asks self.has_relative_link_url(); the class defines no has_
\* method at all
LinkedFileDescriptor_to_xml(self) == [exc |-> "AttributeError", ret |-> NoObject]

(***************************************************************************)
(* class ELANLocale                                                        *)
(***************************************************************************)
ELANLocale(language_code, country_code, variant) ==
    [cls |-> "ELANLocale", language_code |-> language_code,
     country_code |-> country_code, variant |-> variant]

Locale_from_xml(xml_node) ==
    IF xml_node.tagName # "LOCALE"
    THEN [exc |-> "RuntimeError", self |-> NoObject]
    ELSE IF ~hasAttribute(xml_node, "LANGUAGE_CODE")
    THEN [exc |-> "RuntimeError", self |-> NoObject]
    ELSE [exc |-> "ok",
          self |-> ELANLocale(getAttribute(xml_node, "LANGUAGE_CODE"),
                              optAttribute(xml_node, "COUNTRY_CODE"),
                              optAttribute(xml_node, "VARIANT"))]

Locale_to_xml(self) ==
    IF self.language_code = None THEN [exc |-> "AttributeError", ret |-> NoObject]
    ELSE
    [exc |-> "ok",
     ret |-> Element("LOCALE",
                     EscapedAttr("LANGUAGE_CODE", self.language_code)
                         \o EscapedAttr("COUNTRY_CODE", self.country_code)
                         \o EscapedAttr("VARIANT", self.variant),
                     <<>>, None)]

(***************************************************************************)
(* ELANControlledVocabulary and its entries, decoded and encoded.  The     *)
(* entries decoded for one vocabulary go through add_cv_entry into the     *)
(* list of the class, cls_, and "for cv_entry in self" reads that list.    *)
(***************************************************************************)
\* a CV_ENTRY without character data has the value ""
CVEntry_from_xml(xml_node, controlled_vocabulary) ==
    IF xml_node.tagName # "CV_ENTRY"
    THEN [exc |-> "RuntimeError", self |-> NoObject]
    ELSE [exc |-> "ok",
          self |-> ELANControlledVocabularyEntry(
                       IF xml_node.text = None THEN <<>> ELSE xml_node.text,
                       controlled_vocabulary.cv_id,   \* stands for the vocabulary
                       optAttribute(xml_node, "DESCRIPTION"),
                       optAttribute(xml_node, "EXT_REF"))]

CVEntry_to_xml(self) ==
    IF self.value = None THEN [exc |-> "AttributeError", ret |-> NoObject]
    ELSE
    [exc |-> "ok",
     ret |-> Element("CV_ENTRY",
                     EscapedAttr("DESCRIPTION", self.description)
                         \o EscapedAttr("EXT_REF", self.ext_ref),
                     <<>>, Text(escape(self.value)))]

\* the loop of from_xml over the children of CONTROLLED_VOCABULARY, from the
\* i-th on
RECURSIVE CV_from_xml_loop(_, _, _, _)
CV_from_xml_loop(kids, i, cv, cls_) ==
    IF i > Len(kids) THEN [exc |-> "ok", self |-> cv, cls_ |-> cls_]
    ELSE LET e == CVEntry_from_xml(kids[i], cv) IN
         IF e.exc # "ok" THEN [exc |-> e.exc, self |-> NoObject, cls_ |-> cls_]
         ELSE LET a == CV_add_cv_entry(cv, cls_, e.self) IN
              IF a.exc # "ok" THEN [exc |-> a.exc, self |-> NoObject, cls_ |-> a.cls_]
              ELSE CV_from_xml_loop(kids, i + 1, cv, a.cls_)

CV_from_xml(xml_node, cls_) ==
    IF xml_node.tagName # "CONTROLLED_VOCABULARY" \/ ~hasAttribute(xml_node, "CV_ID")
    THEN [exc |-> "RuntimeError", self |-> NoObject, cls_ |-> cls_]
    ELSE CV_from_xml_loop(xml_node.kids, 1,
                          ELANControlledVocabulary(getAttribute(xml_node, "CV_ID"),
                                                   optAttribute(xml_node, "DESCRIPTION"),
                                                   optAttribute(xml_node, "EXT_REF")),
                          cls_)

CV_to_xml(self, cls_) ==
    LET rs == [i \in 1..Len(cls_.cv_entries) |-> CVEntry_to_xml(cls_.cv_entries[i])] IN
    IF self.cv_id = None THEN [exc |-> "AttributeError", ret |-> NoObject]
    ELSE IF FirstExc(rs) # "ok" THEN [exc |-> FirstExc(rs), ret |-> NoObject]
    ELSE [exc |-> "ok",
          ret |-> Element("CONTROLLED_VOCABULARY",
                          EscapedAttr("CV_ID", self.cv_id)
                              \o EscapedAttr("DESCRIPTION", self.description)
                              \o EscapedAttr("EXT_REF", self.ext_ref),
                          [i \in 1..Len(rs) |-> rs[i].ret],
                          None)]

(***************************************************************************)
(* class ELANFile                                                          *)
(*                                                                         *)
(* The lists and dictionaries of a document are attributes of the class    *)
(* (lines 2576-2637) and __init__ assigns nothing, so an object made by    *)
(* ELANFile() reads and appends to the class's; parse_xml gives the object *)
(* it builds lists and dictionaries of its own.  The field own tells which *)
(* of the two an object is; collections holds the ones it owns.            *)
(*                                                                         *)
(* A dictionary that refers to an object of a list holds its position in   *)
(* that list; annotations_dict holds <<position of the tier, position of   *)
(* the annotation on it>>.  time_slots_dict holds the slots themselves.    *)
(*                                                                         *)
(***************************************************************************)
\* media_file is no attribute of the class: an object has it once parse_xml
\* has met a HEADER that carries MEDIA_FILE or TIME_UNITS
Unset == <<"<unset>">>

ELANFileClassAttributes ==
    [media_files |-> <<>>, linked_files |-> <<>>,
     properties |-> EmptyDict, tiers |-> <<>>, linguistic_types |-> <<>>,
     constraints |-> <<>>, controlled_vocabularies |-> <<>>, locales |-> <<>>,
     lexicon_references |-> <<>>, external_references |-> <<>>,
     media_files_dict |-> EmptyDict, linked_files_dict |-> EmptyDict,
     time_slots_dict |-> EmptyDict, tiers_dict |-> EmptyDict,
     controlled_vocabularies_dict |-> EmptyDict,
     annotations_dict |-> EmptyDict, linguistic_types_dict |-> EmptyDict,
     constraints_dict |-> EmptyDict, external_references_dict |-> EmptyDict,
     lexicon_references_dict |-> EmptyDict]

ELANFile ==
    [cls |-> "ELANFile", own |-> FALSE, author |-> None, date |-> None,
     format |-> None, version |-> None, time_units |-> None, media_file |-> Unset,
     time_order |-> NoObject, collections |-> ELANFileClassAttributes]

\* self.tiers, self.tiers_dict, ...: the object's own, or the class's
File_collections(self, cls_) == IF self.own THEN self.collections ELSE cls_

\* the object and the class after the lists and dictionaries self reaches became c
File_updated(self, cls_, c) ==
    IF self.own THEN [exc |-> "ok", self |-> [self EXCEPT !.collections = c], cls_ |-> cls_]
    ELSE [exc |-> "ok", self |-> self, cls_ |-> c]

File_set_author(self, author) == [self EXCEPT !.author = author]
File_set_date(self, date) == [self EXCEPT !.date = date]
File_set_format(self, elan_format) == [self EXCEPT !.format = elan_format]
File_set_version(self, version) == [self EXCEPT !.version = version]
File_set_time_order(self, time_order_) == [self EXCEPT !.time_order = time_order_]

\* self.properties[prop] = value
File_set_property(self, cls_, prop, value) ==
    LET c == File_collections(self, cls_) IN
    File_updated(self, cls_, [c EXCEPT !.properties = DictSet(@, prop, value)])

\* "for annotation in tier: annotations_dict[ID] = annotation" for the tier at
\* position pos: every ID of the tier ends up at its last annotation
IndexAnnotations(d, tier, pos) ==
    LET n == Len(tier.annotations)
        ids == {tier.annotations[i].annotation_id : i \in 1..n}
    IN  [x \in DOMAIN d \cup ids |->
            IF x \in ids
            THEN <<pos, CHOOSE i \in 1..n :
                            /\ tier.annotations[i].annotation_id = x
                            /\ \A j \in (i + 1)..n : tier.annotations[j].annotation_id # x>>
            ELSE d[x]]

\* what both add_tier and the TIER branch of parse_xml do with a tier
WithTier(c, tier) ==
    [c EXCEPT !.tiers = Append(@, tier),
              !.tiers_dict = DictSet(@, tier.tier_id, Len(c.tiers) + 1),
              !.annotations_dict = IndexAnnotations(@, tier, Len(c.tiers) + 1)]

File_add_tier(self, cls_, tier) ==
    IF tier.cls # "ELANTier" THEN [exc |-> "TypeError", self |-> self, cls_ |-> cls_]
    ELSE File_updated(self, cls_, WithTier(File_collections(self, cls_), tier))

WithLexiconReference(c, lexicon_reference) ==
    [c EXCEPT !.lexicon_references = Append(@, lexicon_reference),
              !.lexicon_references_dict =
                  DictSet(@, lexicon_reference.lex_ref_id, Len(c.lexicon_references) + 1)]

File_add_lexicon_reference(self, cls_, lexicon_reference) ==
    IF lexicon_reference.cls # "ELANLexiconReference"
    THEN [exc |-> "TypeError", self |-> self, cls_ |-> cls_]
    ELSE File_updated(self, cls_,
                      WithLexiconReference(File_collections(self, cls_), lexicon_reference))

WithExternalReference(c, external_reference) ==
    [c EXCEPT !.external_references = Append(@, external_reference),
              !.external_references_dict =
                  DictSet(@, external_reference.ext_ref_id, Len(c.external_references) + 1)]

File_add_external_reference(self, cls_, external_reference) ==
    IF external_reference.cls # "ELANExternalReference"
    THEN [exc |-> "TypeError", self |-> self, cls_ |-> cls_]
    ELSE File_updated(self, cls_,
                      WithExternalReference(File_collections(self, cls_), external_reference))

File_add_linguistic_type(self, cls_, linguistic_type) ==
    LET c == File_collections(self, cls_) IN
    IF linguistic_type.cls # "ELANLinguisticType"
    THEN [exc |-> "TypeError", self |-> self, cls_ |-> cls_]
    ELSE File_updated(self, cls_,
             [c EXCEPT !.linguistic_types = Append(@, linguistic_type),
                       !.linguistic_types_dict =
                           DictSet(@, linguistic_type.linguistic_type_id,
                                   Len(c.linguistic_types) + 1)])

File_add_constraint(self, cls_, constraint) ==
    LET c == File_collections(self, cls_) IN
    IF constraint.cls # "ELANConstraint"
    THEN [exc |-> "TypeError", self |-> self, cls_ |-> cls_]
    ELSE File_updated(self, cls_,
             [c EXCEPT !.constraints = Append(@, constraint),
                       !.constraints_dict =
                           DictSet(@, constraint.stereotype, Len(c.constraints) + 1)])

\* the descriptor is appended, and then asked for get_url(), a method
\* neither descriptor class defines (they have get_media_url, get_link_url)
File_add_media_file(self, cls_, media_file) ==
    LET c == File_collections(self, cls_)
        r == File_updated(self, cls_, [c EXCEPT !.media_files = Append(@, media_file)])
    IN  IF media_file.cls # "ELANMediaDescriptor"
        THEN [exc |-> "TypeError", self |-> self, cls_ |-> cls_]
        ELSE [r EXCEPT !.exc = "AttributeError"]

File_add_linked_file(self, cls_, linked_file) ==
    LET c == File_collections(self, cls_)
        r == File_updated(self, cls_, [c EXCEPT !.linked_files = Append(@, linked_file)])
    IN  IF linked_file.cls # "ELANLinkedFileDescriptor"
        THEN [exc |-> "TypeError", self |-> self, cls_ |-> cls_]
        ELSE [r EXCEPT !.exc = "AttributeError"]

\* the vocabulary is appended, and then asked for get_id(); its getter is
\* get_cv_id
File_add_controlled_vocabulary(self, cls_, controlled_vocabulary) ==
    LET c == File_collections(self, cls_)
        r == File_updated(self, cls_,
                 [c EXCEPT !.controlled_vocabularies = Append(@, controlled_vocabulary)])
    IN  IF controlled_vocabulary.cls # "ELANControlledVocabulary"
        THEN [exc |-> "TypeError", self |-> self, cls_ |-> cls_]
        ELSE [r EXCEPT !.exc = "AttributeError"]

File_add_locale(self, cls_, locale) ==
    LET c == File_collections(self, cls_) IN
    IF locale.cls # "ELANLocale"
    THEN [exc |-> "TypeError", self |-> self, cls_ |-> cls_]
    ELSE File_updated(self, cls_, [c EXCEPT !.locales = Append(@, locale)])

\* self.time_order is None until set_time_order or parse_xml assigned one
File_add_time_slot(self, cls_, time_slot) ==
    IF self.time_order = NoObject
    THEN [exc |-> "AttributeError", self |-> self, cls_ |-> cls_]
    ELSE LET a == TimeOrder_add_time_slot(self.time_order, time_slot)
             c == File_collections(self, cls_)
         IN  IF a.exc # "ok" THEN [exc |-> a.exc, self |-> self, cls_ |-> cls_]
             ELSE File_updated([self EXCEPT !.time_order = a.self], cls_,
                               [c EXCEPT !.time_slots_dict =
                                             DictSet(@, time_slot.ID, time_slot)])

File_get_annotation_by_id(self, cls_, annotation_id) ==
    LET c == File_collections(self, cls_) IN
    IF annotation_id \in DOMAIN c.annotations_dict
    THEN [exc |-> "ok",
          ret |-> c.tiers[c.annotations_dict[annotation_id][1]]
                      .annotations[c.annotations_dict[annotation_id][2]]]
    ELSE [exc |-> "KeyError", ret |-> NoObject]

\* the lookups of a document: the object registered under the key, or None
File_get_time_slot_by_id(self, cls_, time_slot_id) ==
    LET c == File_collections(self, cls_) IN
    [exc |-> "ok",
     ret |-> IF time_slot_id \in DOMAIN c.time_slots_dict
             THEN c.time_slots_dict[time_slot_id] ELSE NoObject]

File_get_tier_by_id(self, cls_, tier_id) ==
    LET c == File_collections(self, cls_) IN
    [exc |-> "ok",
     ret |-> IF tier_id \in DOMAIN c.tiers_dict
             THEN c.tiers[c.tiers_dict[tier_id]] ELSE NoObject]

File_get_linguistic_type_by_id(self, cls_, linguistic_type_id) ==
    LET c == File_collections(self, cls_) IN
    [exc |-> "ok",
     ret |-> IF linguistic_type_id \in DOMAIN c.linguistic_types_dict
             THEN c.linguistic_types[c.linguistic_types_dict[linguistic_type_id]]
             ELSE NoObject]

File_get_constraint_by_stereotype(self, cls_, stereotype) ==
    LET c == File_collections(self, cls_) IN
    [exc |-> "ok",
     ret |-> IF stereotype \in DOMAIN c.constraints_dict
             THEN c.constraints[c.constraints_dict[stereotype]] ELSE NoObject]

\* these two read self.ext_refs_dict and self.lexicon_refs_dict; the
\* dictionaries of the class are external_references_dict and
\* lexicon_references_dict, and no object has the others
File_get_external_reference_by_id(self, cls_, ext_ref_id) ==
    [exc |-> "AttributeError", ret |-> NoObject]

File_get_lexicon_reference_by_id(self, cls_, lexicon_ref_id) ==
    [exc |-> "AttributeError", ret |-> NoObject]

\* the loop of parse_xml over the children of HEADER, from the i-th on
RECURSIVE File_parse_header(_, _, _)
File_parse_header(kids, i, elan_file_) ==
    IF i > Len(kids) THEN [exc |-> "ok", self |-> elan_file_]
    ELSE IF kids[i].tagName = "PROPERTY"
    THEN IF ~hasAttribute(kids[i], "NAME") \/ kids[i].text = None
         THEN [exc |-> "RuntimeError", self |-> NoObject]
         ELSE File_parse_header(kids, i + 1,
                  [elan_file_ EXCEPT !.collections.properties =
                      DictSet(@, getAttribute(kids[i], "NAME"), kids[i].text)])
    ELSE IF kids[i].tagName = "MEDIA_DESCRIPTOR"
    THEN LET r == MediaDescriptor_from_xml(kids[i])
             c == elan_file_.collections
         IN  IF r.exc # "ok" THEN [exc |-> r.exc, self |-> NoObject]
             ELSE File_parse_header(kids, i + 1,
                      [elan_file_ EXCEPT
                          !.collections.media_files = Append(@, r.self),
                          !.collections.media_files_dict =
                              DictSet(@, r.self.media_url, Len(c.media_files) + 1)])
    ELSE IF kids[i].tagName = "LINKED_FILE_DESCRIPTOR"
    THEN LET r == LinkedFileDescriptor_from_xml(kids[i])
             c == elan_file_.collections
         IN  IF r.exc # "ok" THEN [exc |-> r.exc, self |-> NoObject]
             ELSE File_parse_header(kids, i + 1,
                      [elan_file_ EXCEPT
                          !.collections.linked_files = Append(@, r.self),
                          !.collections.linked_files_dict =
                              DictSet(@, r.self.link_url, Len(c.linked_files) + 1)])
    ELSE [exc |-> "RuntimeError", self |-> NoObject]

\* the value of TIME_UNITS is assigned to media_file; time_units is assigned
\* only when the attribute is absent
File_parse_header_attributes(child_node, elan_file_) ==
    [elan_file_ EXCEPT
        !.media_file = IF hasAttribute(child_node, "TIME_UNITS")
                       THEN getAttribute(child_node, "TIME_UNITS")
                       ELSE IF hasAttribute(child_node, "MEDIA_FILE")
                       THEN getAttribute(child_node, "MEDIA_FILE")
                       ELSE @,
        !.time_units = IF hasAttribute(child_node, "TIME_UNITS")
                       THEN @ ELSE <<"milliseconds">>]

\* one child of ANNOTATION_DOCUMENT; cv_cls is the list and dictionary of the
\* class ELANControlledVocabulary, which the entries of a decoded
\* vocabulary are added to
File_parse_child(child_node, elan_file_, cv_cls) ==
    LET c == elan_file_.collections
        failed(e) == [exc |-> e, self |-> NoObject, cv_cls |-> cv_cls]
        with(c2) == [exc |-> "ok", self |-> [elan_file_ EXCEPT !.collections = c2],
                     cv_cls |-> cv_cls]
    IN
    CASE child_node.tagName = "HEADER" ->
            LET r == File_parse_header(child_node.kids, 1,
                         File_parse_header_attributes(child_node, elan_file_))
            IN  [exc |-> r.exc, self |-> r.self, cv_cls |-> cv_cls]
      [] child_node.tagName = "TIME_ORDER" ->
            LET r == TimeOrder_from_xml(child_node) IN
            IF r.exc # "ok" THEN failed(r.exc)
            ELSE [exc |-> "ok", cv_cls |-> cv_cls,
                  self |-> [elan_file_ EXCEPT
                      !.time_order = r.self,
                      !.collections.time_slots_dict =
                          [x \in DOMAIN @ \cup DOMAIN r.self.time_slots_dict |->
                              IF x \in DOMAIN r.self.time_slots_dict
                              THEN r.self.time_slots_dict[x] ELSE @[x]]]]
      [] child_node.tagName = "TIER" ->
            LET r == Tier_from_xml(child_node) IN
            IF r.exc # "ok" THEN failed(r.exc) ELSE with(WithTier(c, r.self))
      [] child_node.tagName = "LINGUISTIC_TYPE" ->
            LET r == LinguisticType_from_xml(child_node) IN
            IF r.exc # "ok" THEN failed(r.exc)
            ELSE with([c EXCEPT
                        !.linguistic_types = Append(@, r.self),
                        !.linguistic_types_dict =
                            DictSet(@, r.self.linguistic_type_id, Len(c.linguistic_types) + 1)])
      [] child_node.tagName = "CONSTRAINT" ->
            LET r == Constraint_from_xml(child_node) IN
            IF r.exc # "ok" THEN failed(r.exc)
            ELSE with([c EXCEPT
                        !.constraints = Append(@, r.self),
                        !.constraints_dict =
                            DictSet(@, r.self.stereotype, Len(c.constraints) + 1)])
      [] child_node.tagName = "CONTROLLED_VOCABULARY" ->
            LET r == CV_from_xml(child_node, cv_cls) IN
            IF r.exc # "ok" THEN [exc |-> r.exc, self |-> NoObject, cv_cls |-> r.cls_]
            ELSE [exc |-> "ok", cv_cls |-> r.cls_,
                  self |-> [elan_file_ EXCEPT
                      !.collections.controlled_vocabularies = Append(@, r.self),
                      !.collections.controlled_vocabularies_dict =
                          DictSet(@, r.self.cv_id, Len(c.controlled_vocabularies) + 1)]]
      [] child_node.tagName = "EXTERNAL_REF" ->
            LET r == ExternalReference_from_xml(child_node) IN
            IF r.exc # "ok" THEN failed(r.exc) ELSE with(WithExternalReference(c, r.self))
      [] child_node.tagName = "LOCALE" ->
            LET r == Locale_from_xml(child_node) IN
            IF r.exc # "ok" THEN failed(r.exc)
            ELSE with([c EXCEPT !.locales = Append(@, r.self)])
      [] child_node.tagName = "LEXICON_REF" ->
            LET r == LexiconReference_from_xml(child_node) IN
            IF r.exc # "ok" THEN failed(r.exc) ELSE with(WithLexiconReference(c, r.self))
      [] OTHER -> failed("RuntimeError")

\* the loop of parse_xml over the children of ANNOTATION_DOCUMENT, from the
\* i-th on
RECURSIVE File_parse_children(_, _, _, _)
File_parse_children(kids, i, elan_file_, cv_cls) ==
    IF i > Len(kids) THEN [exc |-> "ok", self |-> elan_file_, cv_cls |-> cv_cls]
    ELSE LET r == File_parse_child(kids[i], elan_file_, cv_cls) IN
         IF r.exc # "ok" THEN r ELSE File_parse_children(kids, i + 1, r.self, r.cv_cls)

\* parse_xml as it would be if it did not look at the name of the root
File_parse_xml_any_root(xml_tree) ==
    File_parse_children(xml_tree.kids, 1,
             [ELANFile EXCEPT !.own = TRUE,
                              !.author = optAttribute(xml_tree, "AUTHOR"),
                              !.date = optAttribute(xml_tree, "DATE"),
                              !.format = optAttribute(xml_tree, "FORMAT"),
                              !.version = optAttribute(xml_tree, "VERSION")],
             cv_class)

\* xml_tree is the element parse_xml reaches as xml_tree.firstChild.  The
\* result carries, as cv_cls, what the decode made of the entry list of the
\* class ELANControlledVocabulary, cv_class before the call.
File_parse_xml(xml_tree) ==
    IF xml_tree.tagName # "ANNOTATION_DOCUMENT"
    THEN [exc |-> "RuntimeError", self |-> NoObject, cv_cls |-> cv_class]
    ELSE File_parse_children(xml_tree.kids, 1,
             [ELANFile EXCEPT !.own = TRUE,
                              !.author = optAttribute(xml_tree, "AUTHOR"),
                              !.date = optAttribute(xml_tree, "DATE"),
                              !.format = optAttribute(xml_tree, "FORMAT"),
                              !.version = optAttribute(xml_tree, "VERSION")],
             cv_class)

\* the text to_xml builds, before it is handed to dom.parseString.  order is
\* the order in which "for prop in self.properties" meets the keys.
File_to_xml_node(self, cls_, order) ==
    LET c == File_collections(self, cls_)
        each(F(_), list) == [i \in 1..Len(list) |-> F(list[i])]
        to == IF self.time_order = NoObject
              THEN <<[exc |-> "AttributeError", ret |-> NoObject]>>
              ELSE <<TimeOrder_to_xml(self.time_order)>>
        cv_to_xml(cv) == CV_to_xml(cv, cv_class)
        hs == each(MediaDescriptor_to_xml, c.media_files)
                 \o each(LinkedFileDescriptor_to_xml, c.linked_files)
        rs == to \o each(Tier_to_xml, c.tiers)
                 \o each(LinguisticType_to_xml, c.linguistic_types)
                 \o each(Locale_to_xml, c.locales)
                 \o each(Constraint_to_xml, c.constraints)
                 \o each(cv_to_xml, c.controlled_vocabularies)
                 \o each(LexiconReference_to_xml, c.lexicon_references)
                 \o each(ExternalReference_to_xml, c.external_references)
        header ==
            Element("HEADER",
                    <<<<"MEDIA_FILE", <<>>>>,
                      <<"TIME_UNITS", IF self.time_units # None
                                      THEN escape(self.time_units)
                                      ELSE <<"milliseconds">>>>>>,
                    [i \in 1..Len(hs) |-> hs[i].ret]
                        \o [i \in 1..Len(order) |->
                               Element("PROPERTY", <<<<"NAME", escape(order[i])>>>>, <<>>,
                                       Text(escape(c.properties[order[i]])))],
                    None)
    IN
    IF None \in {self.date, self.author, self.version}
    THEN [exc |-> "AttributeError", ret |-> NoObject]
    ELSE IF FirstExc(hs \o rs) # "ok" THEN [exc |-> FirstExc(hs \o rs), ret |-> NoObject]
    ELSE [exc |-> "ok",
          ret |-> Element("ANNOTATION_DOCUMENT",
                          <<<<"DATE", escape(self.date)>>,
                            <<"AUTHOR", escape(self.author)>>,
                            <<"VERSION", escape(self.version)>>,
                            <<"FORMAT", IF self.format # None
                                        THEN escape(self.format) ELSE <<"2.7">>>>>>,
                          <<header>> \o [i \in 1..Len(rs) |-> rs[i].ret],
                          None)]

\* File_to_xml as it would be if it returned the text it built without
\* handing it to dom.parseString
File_to_xml_unchecked(self, cls_, order) == File_to_xml_node(self, cls_, order)

\* to_xml: the text, or RuntimeError when dom.parseString does not accept it
File_to_xml(self, cls_, order) ==
    LET node == File_to_xml_node(self, cls_, order) IN
    IF node.exc # "ok" THEN node
    ELSE IF dom_parseString(node.ret).exc # "ok"
    THEN [exc |-> "RuntimeError", ret |-> NoObject]
    ELSE node

(***************************************************************************)
(* What an annotation answers through its document.  An annotation decoded *)
(* by parse_xml keeps a reference to the document being built; elan_file_  *)
(* and cls_ stand for self.ELAN_file and the class ELANFile.               *)
(***************************************************************************)
Annotation_get_annotation_value(self) == [exc |-> "ok", ret |-> self.annotation_value]

\* self.ELAN_file.time_order.get_time_slot_by_id(ID).get_time_value(): the
\* value of a slot without time value is None
TimeOrder_time_of(elan_file_, ID) ==
    IF elan_file_.time_order = NoObject THEN [exc |-> "AttributeError", ret |-> NoInt]
    ELSE LET r == TimeOrder_get_time_slot_by_id(elan_file_.time_order, ID) IN
         IF r.exc # "ok" THEN [exc |-> r.exc, ret |-> NoInt]
         ELSE [exc |-> "ok", ret |-> r.ret.time_value]

AlignableAnnotation_get_start_time(self, elan_file_) ==
    TimeOrder_time_of(elan_file_, self.start_time_slot)

AlignableAnnotation_get_end_time(self, elan_file_) ==
    TimeOrder_time_of(elan_file_, self.end_time_slot)

\* __len__ as it would be without abs()
AlignableAnnotation__len___signed(self, elan_file_) ==
    LET start_time == AlignableAnnotation_get_start_time(self, elan_file_)
        end_time == AlignableAnnotation_get_end_time(self, elan_file_)
    IN  IF start_time.exc # "ok" THEN start_time
        ELSE IF end_time.exc # "ok" THEN end_time
        ELSE IF start_time.ret = NoInt \/ end_time.ret = NoInt
        THEN [exc |-> "TypeError", ret |-> NoInt]
        ELSE [exc |-> "ok", ret |-> <<end_time.ret[1] - start_time.ret[1]>>]

\* None - int and int - None raise TypeError
AlignableAnnotation__len__(self, elan_file_) ==
    LET start_time == AlignableAnnotation_get_start_time(self, elan_file_)
        end_time == AlignableAnnotation_get_end_time(self, elan_file_)
    IN  IF start_time.exc # "ok" THEN start_time
        ELSE IF end_time.exc # "ok" THEN end_time
        ELSE IF start_time.ret = NoInt \/ end_time.ret = NoInt
        THEN [exc |-> "TypeError", ret |-> NoInt]
        ELSE [exc |-> "ok",
              ret |-> <<IF end_time.ret[1] >= start_time.ret[1]
                        THEN end_time.ret[1] - start_time.ret[1]
                        ELSE start_time.ret[1] - end_time.ret[1]>>]

\* get_parent_annotation as it would be if the lookup answered None for an
\* ID it does not hold
RefAnnotation_get_parent_annotation_lenient(self, elan_file_, cls_) ==
    LET r == File_get_annotation_by_id(elan_file_, cls_, self.annotation_ref) IN
    [exc |-> "ok", ret |-> r.ret]

RefAnnotation_get_parent_annotation(self, elan_file_, cls_) ==
    File_get_annotation_by_id(elan_file_, cls_, self.annotation_ref)

\* the method reads self.previous_annotation_ref; the attribute __init__
\* assigns is previous_annotation, and no object has the other
RefAnnotation_get_previous_annotation(self, elan_file_, cls_) ==
    [exc |-> "AttributeError", ret |-> NoObject]

\* slot.set_time_value(v) for the slot the time order holds under ID: the
\* list of the time order, its dictionary and the document's dictionary
\* hold the one object
File_slot_set_time_value(self, ID, time_value) ==
    LET to == self.time_order
        slot == TimeSlot_set_time_value(to.time_slots_dict[ID], time_value)
    IN  [self EXCEPT
            !.time_order.time_slots =
                [i \in 1..Len(to.time_slots) |->
                    IF to.time_slots[i].ID = ID THEN slot ELSE to.time_slots[i]],
            !.time_order.time_slots_dict = DictSet(@, ID, slot),
            !.collections.time_slots_dict =
                IF ID \in DOMAIN @ THEN DictSet(@, ID, slot) ELSE @]

(***************************************************************************)
(* Time slots compared: two slots, any of the four ordering operators.     *)
(***************************************************************************)
NoCall == [op |-> "none", ret |-> "none"]

TSInit ==
    /\ py \in {2, 3}
    /\ ts_self \in Slots
    /\ ts_other \in Slots
    /\ ts_ret = NoCall

TOIdle ==
    /\ time_order = ELANTimeOrder
    /\ to_added = <<>>
    /\ to_last = [op |-> "none"]

CVIdle ==
    /\ cv_class = CVClassAttributes
    /\ cv_obj = <<>>
    /\ cv_last = [op |-> "none"]

LTIdle ==
    /\ lt_obj = NoObject
    /\ con_obj = NoObject
    /\ lt_last = [op |-> "none"]

NoText == [exc |-> "none", ret |-> NoObject]

EFIdle ==
    /\ file_class = ELANFileClassAttributes
    /\ elan_file = NoObject
    /\ xml_text = NoText
    /\ elan_file2 = NoObject
    /\ file_last = [op |-> "none"]
    /\ inserted = <<>>

TS_gt ==
    /\ ts_ret' = [op |-> "gt", ret |-> TimeSlot__gt__(ts_self, ts_other, py)]
    /\ UNCHANGED <<py, ts_self, ts_other, tsRest>>

TS_lt ==
    /\ ts_ret' = [op |-> "lt", ret |-> TimeSlot__lt__(ts_self, ts_other, py)]
    /\ UNCHANGED <<py, ts_self, ts_other, tsRest>>

TS_ge ==
    /\ ts_ret' = [op |-> "ge", ret |-> TimeSlot__ge__(ts_self, ts_other, py)]
    /\ UNCHANGED <<py, ts_self, ts_other, tsRest>>

TS_le ==
    /\ ts_ret' = [op |-> "le", ret |-> TimeSlot__le__(ts_self, ts_other, py)]
    /\ UNCHANGED <<py, ts_self, ts_other, tsRest>>

TS_set_time_value ==
    /\ \E v \in TimeValues : ts_self' = TimeSlot_set_time_value(ts_self, v)
    /\ ts_ret' = NoCall
    /\ UNCHANGED <<py, ts_other, tsRest>>

InitTimeSlot == TSInit /\ TOIdle /\ CVIdle /\ LTIdle /\ EFIdle
NextTimeSlot == TS_gt \/ TS_lt \/ TS_ge \/ TS_le \/ TS_set_time_value
SpecTimeSlot == InitTimeSlot /\ [][NextTimeSlot]_vars

\* what comparing the two time values gives, for the operator named op
ValueOrder(op, a, b) ==
    CASE op = "lt" -> a < b
      [] op = "gt" -> a > b
      [] op = "le" -> a <= b
      [] OTHER     -> a >= b

\* C9: for two slots that both carry a time value every ordering operator
\* answers as the values compare; a comparison in which either slot has no
\* time value is rejected with an error and answers neither true nor false
\* (two unanchored slots are not reported <= or >= each other).
C9_OrderingFollowsValuesOrIsRejected ==
    ts_ret.op # "none" =>
        IF TimeSlot_has_time_value(ts_self) /\ TimeSlot_has_time_value(ts_other)
        THEN ts_ret.ret = PyBool(ValueOrder(ts_ret.op, ts_self.time_value[1],
                                            ts_other.time_value[1]))
        ELSE ts_ret.ret = "TypeError"

(***************************************************************************)
(* A time order filled by add_time_slot.                                   *)
(***************************************************************************)
TSIdle ==
    /\ py = 3
    /\ ts_self = ELANTimeSlot(SlotIdOf(1), NoInt)
    /\ ts_other = ELANTimeSlot(SlotIdOf(1), NoInt)
    /\ ts_ret = NoCall

TO_add_time_slot ==
    \E time_slot \in Slots \cup {Foreign} :
        LET r == TimeOrder_add_time_slot(time_order, time_slot) IN
        /\ time_order' = r.self
        /\ to_added' = IF r.exc = "ok" THEN Append(to_added, time_slot) ELSE to_added
        /\ to_last' = [op |-> "add_time_slot", arg |-> time_slot,
                       before |-> time_order, exc |-> r.exc]
        /\ UNCHANGED toRest

InitTimeOrder == TSIdle /\ TOIdle /\ CVIdle /\ LTIdle /\ EFIdle
NextTimeOrder == TO_add_time_slot
SpecTimeOrder == InitTimeOrder /\ [][NextTimeOrder]_vars

\* C10: add_time_slot enforces ID uniqueness.  A slot whose ID is already
\* in the time order is refused and the slot sequence and the ID index stay
\* as they were; a slot with a new ID is appended at the end.  Hence the
\* slot at position i is the i-th slot that was accepted, the index holds
\* exactly the accepted IDs, and lookup by ID returns the slot accepted
\* under that ID.
C10_AddTimeSlotInsertOnce ==
    /\ time_order.time_slots = to_added
    /\ DOMAIN time_order.time_slots_dict = {to_added[i].ID : i \in 1..Len(to_added)}
    /\ \A i \in 1..Len(to_added) :
          /\ TimeOrder_get_time_slot_by_position(time_order, i - 1) =
                 [exc |-> "ok", ret |-> to_added[i]]
          /\ TimeOrder_get_time_slot_by_id(time_order, to_added[i].ID) =
                 [exc |-> "ok", ret |-> to_added[i]]
    /\ (to_last.op = "add_time_slot" /\ to_last.arg.cls = "ELANTimeSlot") =>
          IF to_last.arg.ID \in DOMAIN to_last.before.time_slots_dict
          THEN /\ to_last.exc = "KeyError"
               /\ time_order = to_last.before
          ELSE /\ to_last.exc = "ok"
               /\ time_order.time_slots =
                      Append(to_last.before.time_slots, to_last.arg)

\* a slot was refused for its ID while another slot, added later than the
\* one holding that ID, was already in the time order
C10_Witness ==
    /\ to_last.op = "add_time_slot"
    /\ to_last.exc = "KeyError"
    /\ Len(time_order.time_slots) >= 2
    /\ to_last.arg.ID = time_order.time_slots[1].ID
    /\ to_last.arg # time_order.time_slots[1]

(***************************************************************************)
(* Two controlled vocabularies, with or without an external reference,     *)
(* and the entries added to them.                                          *)
(***************************************************************************)
EntryValueOf(i) ==
    CASE i = 1 -> <<"a">> [] i = 2 -> <<"b">> [] i = 3 -> <<"c">>
      [] i = 4 -> <<"d">> [] OTHER -> <<"e">>
ExtRefIds == {None, <<"er1">>}
CVEntries ==
    {ELANControlledVocabularyEntry(EntryValueOf(i), <<"cv1">>, d, None) :
        i \in 1..NumEntryValues, d \in {None, <<"first">>}}

CVInit ==
    /\ cv_class = CVClassAttributes
    /\ \E x1 \in ExtRefIds, x2 \in ExtRefIds :
          cv_obj = <<ELANControlledVocabulary(<<"cv1">>, None, x1),
                     ELANControlledVocabulary(<<"cv2">>, None, x2)>>
    /\ cv_last = [op |-> "none"]

CV_add ==
    \E h \in DOMAIN cv_obj, cv_entry \in CVEntries \cup {Foreign} :
        LET r == CV_add_cv_entry(cv_obj[h], cv_class, cv_entry) IN
        /\ cv_class' = r.cls_
        /\ cv_last' = [op |-> "add_cv_entry", self |-> cv_obj[h], arg |-> cv_entry,
                       before |-> cv_class, exc |-> r.exc]
        /\ UNCHANGED <<cv_obj, cvRest>>

CV_set_ext ==
    \E h \in DOMAIN cv_obj, x \in ExtRefIds :
        /\ cv_obj' = [cv_obj EXCEPT ![h] = CV_set_ext_ref(cv_obj[h], x)]
        /\ cv_last' = [op |-> "set_ext_ref"]
        /\ UNCHANGED <<cv_class, cvRest>>

InitCV == TSIdle /\ TOIdle /\ CVInit /\ LTIdle /\ EFIdle
NextCV == CV_add \/ CV_set_ext
SpecCV == InitCV /\ [][NextCV]_vars

\* C3: on a vocabulary that carries an external reference add_cv_entry
\* fails with the external-vocabulary error (a RuntimeError) whatever is
\* passed, and the entry list and the entry index are after the call what
\* they were before it.
C3_ExternalVocabularyRefusesEntries ==
    (cv_last.op = "add_cv_entry" /\ cv_last.self.ext_ref # None) =>
        /\ cv_last.exc = "RuntimeError"
        /\ cv_class.cv_entries = cv_last.before.cv_entries
        /\ cv_class.cv_entries_dict = cv_last.before.cv_entries_dict

\* an entry with a value the entry index does not hold yet was refused by a
\* vocabulary with an external reference while the entry list held entries
C3_Witness ==
    /\ cv_last.op = "add_cv_entry"
    /\ cv_last.self.ext_ref # None
    /\ cv_last.arg.cls = "ELANControlledVocabularyEntry"
    /\ cv_last.arg.value \notin DOMAIN cv_class.cv_entries_dict
    /\ cv_last.exc = "RuntimeError"
    /\ Len(cv_class.cv_entries) >= 1

\* the call last made was add_cv_entry of an entry on a vocabulary without
\* external reference
CVLocalAdd ==
    /\ cv_last.op = "add_cv_entry"
    /\ cv_last.self.ext_ref = None
    /\ cv_last.arg.cls = "ELANControlledVocabularyEntry"

CVAppended ==
    /\ cv_last.exc = "ok"
    /\ cv_class.cv_entries = Append(cv_last.before.cv_entries, cv_last.arg)
    /\ CV_get_cv_entry_by_value(cv_last.self, cv_class, cv_last.arg.value) = cv_last.arg

\* C4 as stated: without external reference, add_cv_entry of an entry whose
\* value is already present fails with a duplicate-value error; otherwise
\* the entry is appended and is retrievable by its value.
C4_DuplicateValueFails ==
    CVLocalAdd =>
        IF cv_last.arg.value \in DOMAIN cv_last.before.cv_entries_dict
        THEN cv_last.exc \notin {"ok"}
        ELSE CVAppended

\* C4 as amended: without external reference, add_cv_entry of an entry whose
\* value is already present returns normally and changes nothing (the entry
\* list and the entry index keep the entry stored first); otherwise the
\* entry is appended and is retrievable by its value.
C4_DuplicateValueIgnored ==
    CVLocalAdd =>
        IF cv_last.arg.value \in DOMAIN cv_last.before.cv_entries_dict
        THEN /\ cv_last.exc = "ok"
             /\ cv_class = cv_last.before
        ELSE CVAppended

\* an entry was offered whose value was present with another description,
\* and the entry stored first is still the one the lookup returns
C4_Witness ==
    /\ CVLocalAdd
    /\ cv_last.arg.value \in DOMAIN cv_last.before.cv_entries_dict
    /\ cv_last.before.cv_entries_dict[cv_last.arg.value] # cv_last.arg
    /\ CV_get_cv_entry_by_value(cv_last.self, cv_class, cv_last.arg.value) # cv_last.arg

(***************************************************************************)
(* A linguistic type and a constraint: constructed, decoded, and changed   *)
(* by set_constraints and set_time_alignable.                              *)
(***************************************************************************)
Stereotypes ==
    {<<"Time_Subdivision">>, <<"Symbolic_Subdivision">>,
     <<"Symbolic_Association">>, <<"Included_In">>}
StereotypeArgs == Stereotypes \cup {<<"None">>, <<"Unknown_Stereotype">>}
FlagArgs == {None, <<"true">>, <<"false">>}

LTNodes ==
    {Element("LINGUISTIC_TYPE",
             Attr("LINGUISTIC_TYPE_ID", id) \o Attr("TIME_ALIGNABLE", flag)
                 \o Attr("CONSTRAINTS", c),
             <<>>, None) :
        id \in {<<"lt1">>}, flag \in FlagArgs, c \in StereotypeArgs \cup {None}}
    \cup {Element("LINGUISTIC_TYPE", Attr("TIME_ALIGNABLE", <<"true">>), <<>>, None),
          Element("LOCALE", Attr("LINGUISTIC_TYPE_ID", <<"lt1">>), <<>>, None)}

ConstraintNodes ==
    {Element("CONSTRAINT", Attr("STEREOTYPE", s) \o Attr("DESCRIPTION", d), <<>>, None) :
        s \in StereotypeArgs, d \in {None, <<"text">>}}
    \cup {Element("CONSTRAINT", Attr("DESCRIPTION", <<"text">>), <<>>, None)}

LTInit ==
    /\ lt_obj = NoObject
    /\ con_obj = NoObject
    /\ lt_last = [op |-> "none"]

LT_new ==
    \E flag \in FlagArgs, c \in StereotypeArgs \cup {None} :
        LET r == LinguisticType__init__(<<"lt1">>, flag, c, None, None, None, None) IN
        /\ lt_obj' = IF r.exc = "ok" THEN r.self ELSE lt_obj
        /\ lt_last' = [op |-> "ELANLinguisticType", flag |-> flag, arg |-> c,
                       before |-> lt_obj, exc |-> r.exc]
        /\ UNCHANGED <<con_obj, ltRest>>

LT_decode ==
    \E xml_node \in LTNodes :
        LET r == LinguisticType_from_xml(xml_node) IN
        /\ lt_obj' = IF r.exc = "ok" THEN r.self ELSE lt_obj
        /\ lt_last' = [op |-> "ELANLinguisticType.from_xml",
                       flag |-> optAttribute(xml_node, "TIME_ALIGNABLE"),
                       arg |-> optAttribute(xml_node, "CONSTRAINTS"),
                       before |-> lt_obj, exc |-> r.exc]
        /\ UNCHANGED <<con_obj, ltRest>>

LT_set_constraints ==
    /\ lt_obj # NoObject
    /\ \E c \in StereotypeArgs \cup {None} :
        LET r == LinguisticType_set_constraints(lt_obj, c) IN
        /\ lt_obj' = r.self
        /\ lt_last' = [op |-> "set_constraints", flag |-> None, arg |-> c,
                       before |-> lt_obj, exc |-> r.exc]
        /\ UNCHANGED <<con_obj, ltRest>>

LT_set_time_alignable ==
    /\ lt_obj # NoObject
    /\ \E v \in {PyTrue, PyFalse} :
        LET r == LinguisticType_set_time_alignable(lt_obj, v) IN
        /\ lt_obj' = r.self
        /\ lt_last' = [op |-> "set_time_alignable", flag |-> v, arg |-> None,
                       before |-> lt_obj, exc |-> r.exc]
        /\ UNCHANGED <<con_obj, ltRest>>

CON_new ==
    \E s \in StereotypeArgs, d \in {None, <<"text">>} :
        /\ con_obj' = ELANConstraint(s, d)
        /\ lt_last' = [op |-> "ELANConstraint", flag |-> None, arg |-> s,
                       before |-> con_obj, exc |-> "ok"]
        /\ UNCHANGED <<lt_obj, ltRest>>

CON_decode ==
    \E xml_node \in ConstraintNodes :
        LET r == Constraint_from_xml(xml_node) IN
        /\ con_obj' = IF r.exc = "ok" THEN r.self ELSE con_obj
        /\ lt_last' = [op |-> "ELANConstraint.from_xml", flag |-> None,
                       arg |-> optAttribute(xml_node, "STEREOTYPE"),
                       before |-> con_obj, exc |-> r.exc]
        /\ UNCHANGED <<lt_obj, ltRest>>

InitLT == TSIdle /\ TOIdle /\ CVIdle /\ LTInit /\ EFIdle
NextLT ==
    \/ LT_new \/ LT_decode \/ LT_set_constraints \/ LT_set_time_alignable
    \/ CON_new \/ CON_decode
SpecLT == InitLT /\ [][NextLT]_vars

\* the table of the data model: which constraint (None: no constraint) makes
\* a type time-alignable, and which stereotype is a subdivision
TableAlignable(c) == c \in {None, <<"Time_Subdivision">>, <<"Included_In">>}
TableSubdivision(s) ==
    s \in {<<"Time_Subdivision">>, <<"Symbolic_Subdivision">>, <<"Included_In">>}

\* C5: the stereotype table holds for every row: a constraint with an
\* enumerated stereotype answers is_time_alignable() and is_subdivision() as
\* the table says, and a linguistic type constructed with constraint s and
\* no explicit flag is constructed and is time-alignable exactly when the
\* table says so, a type with no constraint being time-alignable.
C5_StereotypeTable ==
    /\ (con_obj # NoObject /\ con_obj.stereotype \in Stereotypes) =>
          /\ Constraint_is_time_alignable(con_obj) =
                 PyBool(TableAlignable(con_obj.stereotype))
          /\ Constraint_is_subdivision(con_obj) =
                 PyBool(TableSubdivision(con_obj.stereotype))
    /\ (/\ lt_last.op = "ELANLinguisticType"
        /\ lt_last.flag = None
        /\ lt_last.arg \in Stereotypes \cup {None}) =>
          /\ lt_last.exc = "ok"
          /\ LinguisticType_is_time_alignable(lt_obj) =
                 PyBool(TableAlignable(lt_last.arg))

\* C6: set_time_alignable(v) is rejected with an error, leaving the flag
\* unchanged, exactly when v contradicts the table for the current
\* constraint of the type; otherwise it is accepted and the flag is v.
C6_SetTimeAlignableFollowsTable ==
    (/\ lt_last.op = "set_time_alignable"
     /\ lt_last.before.constraints \in Stereotypes \cup {None}) =>
        IF (lt_last.flag = PyTrue) # TableAlignable(lt_last.before.constraints)
        THEN /\ lt_last.exc # "ok"
             /\ lt_obj.time_alignable = lt_last.before.time_alignable
        ELSE /\ lt_last.exc = "ok"
             /\ lt_obj.time_alignable = lt_last.flag

\* C7: constructing or decoding a linguistic type that declares both an
\* explicit TIME_ALIGNABLE flag and a CONSTRAINTS stereotype is rejected
\* when the flag differs from what the table gives for the stereotype.
C7_ContradictoryFlagRejected ==
    (/\ lt_last.op \in {"ELANLinguisticType", "ELANLinguisticType.from_xml"}
     /\ lt_last.flag \in {<<"true">>, <<"false">>}
     /\ lt_last.arg \in Stereotypes
     /\ (lt_last.flag = <<"true">>) # TableAlignable(lt_last.arg)) =>
        lt_last.exc # "ok"

\* C8: a constraint stereotype outside the enumerated values is rejected
\* with an error wherever it is supplied: constructing or decoding an
\* ELANConstraint, constructing or decoding an ELANLinguisticType, and
\* set_constraints.
C8_UnknownStereotypeRejected ==
    (/\ lt_last.op \in {"ELANConstraint", "ELANConstraint.from_xml",
                        "ELANLinguisticType", "ELANLinguisticType.from_xml",
                        "set_constraints"}
     /\ lt_last.arg \notin Stereotypes \cup {None}) =>
        lt_last.exc # "ok"

(***************************************************************************)
(* Documents handed to parse_xml, as the DOM trees xml.dom.minidom makes   *)
(* of them.                                                                *)
(***************************************************************************)
AlignableNode(id, value, more) ==
    Element("ANNOTATION", <<>>,
            <<Element("ALIGNABLE_ANNOTATION",
                      <<<<"ANNOTATION_ID", id>>, <<"TIME_SLOT_REF1", <<"ts1">>>>,
                        <<"TIME_SLOT_REF2", <<"ts2">>>>>> \o more,
                      <<Element("ANNOTATION_VALUE", <<>>, <<>>, Text(value))>>, None)>>,
            None)

RefNode(id, value, more) ==
    Element("ANNOTATION", <<>>,
            <<Element("REF_ANNOTATION",
                      <<<<"ANNOTATION_ID", id>>, <<"ANNOTATION_REF", <<"a1">>>>>> \o more,
                      <<Element("ANNOTATION_VALUE", <<>>, <<>>, Text(value))>>, None)>>,
            None)

TierNode(id, annotations) ==
    Element("TIER", <<<<"TIER_ID", id>>, <<"LINGUISTIC_TYPE_REF", <<"lt1">>>>>>,
            annotations, None)

TimeOrderNode(slots) ==
    Element("TIME_ORDER", <<>>,
            [i \in 1..Len(slots) |->
                Element("TIME_SLOT",
                        <<<<"TIME_SLOT_ID", slots[i][1]>>, <<"TIME_VALUE", slots[i][2]>>>>,
                        <<>>, None)],
            None)

DocumentNode(rootAttrs, headerAttrs, properties, slots, rest) ==
    Element("ANNOTATION_DOCUMENT", rootAttrs,
            <<Element("HEADER", headerAttrs, properties, None), TimeOrderNode(slots)>>
                \o rest,
            None)

TwoSlots == <<<<<<"ts1">>, <<"0">>>>, <<<<"ts2">>, <<"1", "0", "0", "0">>>>>>

\* the children of ANNOTATION_DOCUMENT after TIME_ORDER: tiers ...
InputTiers ==
    {<<>>,
     <<TierNode(<<"t1">>, <<AlignableNode(<<"a1">>, <<"hello">>, <<>>)>>)>>,
     <<TierNode(<<"t1">>, <<AlignableNode(<<"a1">>, <<"a ", "<", " b">>,
                                          Attr("EXT_REF", <<"er1">>))>>)>>,
     <<TierNode(<<"t1">>, <<AlignableNode(<<"a1">>, <<"hello">>, <<>>)>>),
       TierNode(<<"t2">>, <<RefNode(<<"a2">>, <<>>, Attr("EXTERNAL_REF", <<"er1">>))>>)>>,
     <<TierNode(<<"t1">>, <<AlignableNode(<<"a1">>, <<"hello">>, <<>>)>>),
       TierNode(<<"t2">>, <<RefNode(<<"a1">>, <<"gloss">>, <<>>)>>)>>}

\* ... and the elements that follow them
InputOthers ==
    {<<>>,
     <<Element("LINGUISTIC_TYPE",
               <<<<"LINGUISTIC_TYPE_ID", <<"lt1">>>>, <<"TIME_ALIGNABLE", <<"true">>>>,
                 <<"GRAPHIC_REFERENCES", <<"false">>>>>>, <<>>, None),
       Element("CONSTRAINT", Attr("STEREOTYPE", <<"Time_Subdivision">>), <<>>, None)>>,
     <<Element("LINGUISTIC_TYPE",
               <<<<"LINGUISTIC_TYPE_ID", <<"lt1">>>>, <<"TIME_ALIGNABLE", <<"false">>>>,
                 <<"CONSTRAINTS", <<"Symbolic_Association">>>>,
                 <<"GRAPHIC_REFERENCES", <<"true">>>>>>, <<>>, None)>>,
     <<Element("LEXICON_REF",
               <<<<"LEX_REF_ID", <<"lr1">>>>, <<"NAME", <<"lexicon">>>>,
                 <<"TYPE", <<"lexus">>>>, <<"URL", <<"http://lexus">>>>,
                 <<"LEXICON_ID", <<"l1">>>>, <<"LEXICON_NAME", <<"words">>>>>>,
               <<>>, None)>>,
     <<Element("EXTERNAL_REF",
               <<<<"EXT_REF_ID", <<"er1">>>>, <<"TYPE", <<"iso12620">>>>>>, <<>>,
               <<"http://isocat">>)>>}

WellFormedDocuments ==
    {DocumentNode(<<<<"AUTHOR", <<"Jan">>>>, <<"DATE", <<"2013-01-01">>>>>>
                      \o Attr("FORMAT", format) \o <<<<"VERSION", <<"2.7">>>>>>,
                  Attr("TIME_UNITS", units), properties, TwoSlots, tiers \o others) :
        format \in {None, <<"2.7">>},
        units \in {None, <<"milliseconds">>},
        properties \in {<<>>, <<Element("PROPERTY", Attr("NAME", <<"lastUsedAnnotationId">>),
                                        <<>>, <<"2">>)>>},
        tiers \in InputTiers, others \in InputOthers}

\* documents parse_xml does not accept
MalformedDocuments ==
    {Element("ANNOTATION_DOC", <<>>, <<>>, None),
     DocumentNode(<<>>, <<>>, <<>>, TwoSlots, <<Element("LICENSE", <<>>, <<>>, None)>>),
     DocumentNode(<<>>, <<>>, <<Element("PROPERTY", Attr("NAME", <<"empty">>),
                                        <<>>, None)>>, TwoSlots, <<>>),
     DocumentNode(<<>>, <<>>, <<>>, <<<<<<"ts1">>, <<"soon">>>>>>, <<>>),
     DocumentNode(<<>>, <<>>, <<>>, <<<<<<"ts1">>, <<"0">>>>, <<<<"ts1">>, <<"1">>>>>>, <<>>),
     DocumentNode(<<>>, <<>>, <<>>, TwoSlots,
                  <<Element("TIER", Attr("TIER_ID", <<"t1">>), <<>>, None)>>),
     DocumentNode(<<>>, <<>>, <<>>, TwoSlots,
                  <<TierNode(<<"t1">>, <<Element("ANNOTATION", <<>>, <<>>, None)>>)>>)}

InputDocuments == WellFormedDocuments \cup MalformedDocuments

(***************************************************************************)
(* A document built or decoded, changed through its setters and adders,    *)
(* encoded by to_xml, and the text decoded again.                          *)
(***************************************************************************)
MaxReferences == 1

AuthorArgs == {<<"Jan">>, <<"R", "&", "D">>, <<"\"", "Jan", "\"">>}

LexiconReferenceArgs ==
    {ELANLexiconReference(<<"lr1">>, <<"lexicon">>, <<"lexus">>, <<"http://lexus">>,
                          <<"l1">>, <<"words">>, None, None)}

ExternalReferenceArgs == {<<<<"er1">>, <<"iso12620">>, <<"http://isocat">>>>}

\* every order in which a loop can meet the keys of a dictionary
Orders(S) ==
    {s \in [1..Cardinality(S) -> S] : \A i, j \in 1..Cardinality(S) : s[i] = s[j] => i = j}

\* the lists and dictionaries elan_file reaches
Held == IF elan_file = NoObject THEN file_class ELSE File_collections(elan_file, file_class)

\* the document changed: the text encoded before is no longer its encoding
Changed(op, arg, r) ==
    /\ elan_file' = r.self
    /\ file_class' = r.cls_
    /\ file_last' = [op |-> op, arg |-> arg,
                     before |-> Held, exc |-> r.exc]
    /\ xml_text' = NoText
    /\ elan_file2' = NoObject
    /\ UNCHANGED efRest

Assigned(op, arg, self) == Changed(op, arg, [exc |-> "ok", self |-> self, cls_ |-> file_class])

EF_new ==
    /\ elan_file = NoObject
    /\ Assigned("ELANFile", None, ELANFile)

\* the names of the PROPERTY elements of a document as it is read, each at
\* the place where it comes first
RECURSIVE FirstInserted(_, _)
FirstInserted(names, seen) ==
    IF names = <<>> THEN seen
    ELSE FirstInserted(Tail(names),
                       IF Head(names) \in Range(seen) THEN seen ELSE Append(seen, Head(names)))

PropertyNamesOf(xml_tree) ==
    IF xml_tree.kids = <<>> \/ xml_tree.kids[1].tagName # "HEADER" THEN <<>>
    ELSE LET properties == SelectSeq(xml_tree.kids[1].kids,
                                     LAMBDA k : k.tagName = "PROPERTY")
         IN  FirstInserted([i \in 1..Len(properties) |->
                               optAttribute(properties[i], "NAME")], <<>>)

EF_parse_xml ==
    /\ elan_file = NoObject
    /\ \E xml_tree \in InputDocuments :
        LET r == File_parse_xml(xml_tree) IN
        /\ elan_file' = r.self
        /\ file_last' = [op |-> "parse_xml", arg |-> xml_tree,
                         before |-> ELANFileClassAttributes, exc |-> r.exc]
        /\ inserted' = IF r.exc = "ok" THEN PropertyNamesOf(xml_tree) ELSE <<>>
        /\ UNCHANGED <<file_class, xml_text, elan_file2, ordRest>>

EF_set_author ==
    /\ elan_file # NoObject
    /\ \E author \in AuthorArgs :
        Assigned("set_author", author, File_set_author(elan_file, author))

EF_set_date ==
    /\ elan_file # NoObject
    /\ Assigned("set_date", <<"2013-01-01">>, File_set_date(elan_file, <<"2013-01-01">>))

EF_set_version ==
    /\ elan_file # NoObject
    /\ Assigned("set_version", <<"2.7">>, File_set_version(elan_file, <<"2.7">>))

EF_set_format ==
    /\ elan_file # NoObject
    /\ Assigned("set_format", <<"2.8">>, File_set_format(elan_file, <<"2.8">>))

EF_set_time_order ==
    /\ elan_file # NoObject
    /\ elan_file.time_order = NoObject
    /\ Assigned("set_time_order", ELANTimeOrder, File_set_time_order(elan_file, ELANTimeOrder))

EF_add_time_slot ==
    /\ elan_file # NoObject
    /\ \E time_slot \in {ELANTimeSlot(<<"ts1">>, <<0>>), ELANTimeSlot(<<"ts2">>, NoInt)} :
        Changed("add_time_slot", time_slot,
                File_add_time_slot(elan_file, file_class, time_slot))

EF_add_lexicon_reference ==
    /\ elan_file # NoObject
    /\ Len(File_collections(elan_file, file_class).lexicon_references) < MaxReferences
    /\ \E lexicon_reference \in LexiconReferenceArgs \cup {Foreign} :
        Changed("add_lexicon_reference", lexicon_reference,
                File_add_lexicon_reference(elan_file, file_class, lexicon_reference))

EF_add_external_reference ==
    /\ elan_file # NoObject
    /\ Len(File_collections(elan_file, file_class).external_references) < MaxReferences
    /\ \E a \in ExternalReferenceArgs :
        Changed("add_external_reference", ELANExternalReference(a[1], a[2], a[3]).self,
                File_add_external_reference(elan_file, file_class,
                                            ELANExternalReference(a[1], a[2], a[3]).self))

EF_to_xml ==
    /\ elan_file # NoObject
    /\ \E order \in Orders(DOMAIN File_collections(elan_file, file_class).properties) :
        /\ xml_text' = File_to_xml(elan_file, file_class, order)
        /\ file_last' = [op |-> "to_xml", arg |-> order,
                         before |-> Held,
                         exc |-> xml_text'.exc]
        /\ elan_file2' = NoObject
        /\ UNCHANGED <<file_class, elan_file, efRest>>

\* ELANFile.parse_xml(dom.parseString(text), file_name) of the text to_xml returned
EF_decode ==
    /\ xml_text.exc = "ok"
    /\ LET r == File_parse_xml(dom_parseString(xml_text.ret).ret) IN
        /\ elan_file2' = r.self
        /\ file_last' = [op |-> "decode", arg |-> xml_text.ret,
                         before |-> Held,
                         exc |-> r.exc]
        /\ UNCHANGED <<file_class, elan_file, xml_text, efRest>>

InitCodec == TSIdle /\ TOIdle /\ CVIdle /\ LTIdle /\ EFIdle
NextCodec ==
    \/ EF_new \/ EF_parse_xml
    \/ EF_set_author \/ EF_set_date \/ EF_set_version \/ EF_set_format
    \/ EF_set_time_order \/ EF_add_time_slot
    \/ EF_add_lexicon_reference \/ EF_add_external_reference
    \/ EF_to_xml \/ EF_decode
SpecCodec == InitCodec /\ [][NextCodec]_vars

RECURSIVE CountAnnotations(_)
CountAnnotations(tiers) ==
    IF tiers = <<>> THEN 0
    ELSE Len(Head(tiers).annotations) + CountAnnotations(Tail(tiers))

\* what the claim compares of two documents
Metadata(self) ==
    [author |-> self.author, date |-> self.date, format |-> self.format,
     version |-> self.version, time_units |-> self.time_units]

Counts(self, cls_) ==
    LET c == File_collections(self, cls_) IN
    [time_slots |-> IF self.time_order = NoObject THEN 0
                    ELSE Len(self.time_order.time_slots),
     tiers |-> Len(c.tiers), annotations |-> CountAnnotations(c.tiers),
     linguistic_types |-> Len(c.linguistic_types), constraints |-> Len(c.constraints),
     lexicon_references |-> Len(c.lexicon_references),
     external_references |-> Len(c.external_references),
     properties |-> Cardinality(DOMAIN c.properties)]

Lookups(self, cls_) ==
    LET c == File_collections(self, cls_) IN
    [time_slots |-> c.time_slots_dict,
     tiers |-> [x \in DOMAIN c.tiers_dict |-> c.tiers[c.tiers_dict[x]]],
     annotations |-> [x \in DOMAIN c.annotations_dict |->
                         File_get_annotation_by_id(self, cls_, x).ret],
     linguistic_types |-> [x \in DOMAIN c.linguistic_types_dict |->
                              c.linguistic_types[c.linguistic_types_dict[x]]],
     constraints |-> [x \in DOMAIN c.constraints_dict |->
                         c.constraints[c.constraints_dict[x]]],
     lexicon_references |-> [x \in DOMAIN c.lexicon_references_dict |->
                                c.lexicon_references[c.lexicon_references_dict[x]]],
     external_references |-> [x \in DOMAIN c.external_references_dict |->
                                 c.external_references[c.external_references_dict[x]]],
     properties |-> c.properties]

\* C1: round-trip law: whenever to_xml accepted a non-empty document and its
\* text was decoded, the decoding succeeded and the decoded document equals
\* the encoded one in metadata, in the number of entities of every kind and
\* in the result of every lookup by identifier.
C1_RoundTrip ==
    (/\ file_last.op = "decode"
     /\ CountAnnotations(File_collections(elan_file, file_class).tiers) > 0) =>
        /\ file_last.exc = "ok"
        /\ Metadata(elan_file2) = Metadata(elan_file)
        /\ Counts(elan_file2, file_class) = Counts(elan_file, file_class)
        /\ Lookups(elan_file2, file_class) = Lookups(elan_file, file_class)

(***************************************************************************)
(* A document and its tiers: tiers added to the document, annotations      *)
(* added to the tiers it holds.                                            *)
(***************************************************************************)
MaxTiers == 2
MaxAnnotations == 2

TierDocuments ==
    {DocumentNode(<<>>, <<>>, <<>>, TwoSlots, tiers) : tiers \in InputTiers}

AnnotationArgs ==
    {ELANAlignableAnnotation(<<"a1">>, <<"hello">>, <<"ts1">>, <<"ts2">>, None, None),
     ELANRefAnnotation(<<"a1">>, <<"gloss">>, <<"a1">>, None, <<"er1">>),
     ELANRefAnnotation(<<"a2">>, <<>>, <<"a1">>, None, None)}

\* a tier as ELANTier(...) made it, and after one add_annotation
TierArgs ==
    LET new == {ELANTier(id, <<"lt1">>, None, None, None, None) : id \in {<<"t1">>, <<"t2">>}}
    IN  new \cup {Tier_add_annotation(tier, a) : tier \in new, a \in AnnotationArgs}

EF_parse_xml_tiers ==
    /\ elan_file = NoObject
    /\ \E xml_tree \in TierDocuments :
        LET r == File_parse_xml(xml_tree) IN
        /\ elan_file' = r.self
        /\ file_last' = [op |-> "parse_xml", arg |-> xml_tree,
                         before |-> ELANFileClassAttributes, exc |-> r.exc]
        /\ UNCHANGED <<file_class, xml_text, elan_file2, efRest>>

EF_add_tier ==
    /\ elan_file # NoObject
    /\ Len(Held.tiers) < MaxTiers
    /\ \E tier \in TierArgs \cup {Foreign} :
        /\ tier # Foreign =>
              CountAnnotations(Held.tiers) + Len(tier.annotations) <= MaxAnnotations
        /\ Changed("add_tier", tier, File_add_tier(elan_file, file_class, tier))

\* tier.add_annotation(annotation) for the tier at position i of the document
TIER_add_annotation ==
    /\ elan_file # NoObject
    /\ CountAnnotations(Held.tiers) < MaxAnnotations
    /\ \E i \in 1..Len(Held.tiers), annotation \in AnnotationArgs :
        Changed("add_annotation", <<i, annotation>>,
                File_updated(elan_file, file_class,
                             [Held EXCEPT !.tiers[i] = Tier_add_annotation(@, annotation)]))

InitFile == TSIdle /\ TOIdle /\ CVIdle /\ LTIdle /\ EFIdle
NextFile == EF_new \/ EF_parse_xml_tiers \/ EF_add_tier \/ TIER_add_annotation
SpecFile == InitFile /\ [][NextFile]_vars

\* where the annotations of a list of tiers are, and the first place an ID is held
Places(tiers) ==
    UNION {{<<i, j>> : j \in 1..Len(tiers[i].annotations)} : i \in 1..Len(tiers)}
IdAt(tiers, p) == tiers[p[1]].annotations[p[2]].annotation_id
HeldIds(tiers) == {IdAt(tiers, p) : p \in Places(tiers)}
FirstPlace(tiers, id) ==
    CHOOSE p \in Places(tiers) :
        /\ IdAt(tiers, p) = id
        /\ \A q \in Places(tiers) :
              IdAt(tiers, q) = id => (p[1] < q[1] \/ (p[1] = q[1] /\ p[2] <= q[2]))

\* the IDs of the annotations of a document as it is read, in document order
RECURSIVE AnnotationIdsOf(_)
AnnotationIdsOf(kids) ==
    IF kids = <<>> THEN <<>>
    ELSE (IF Head(kids).tagName = "TIER"
          THEN [j \in 1..Len(Head(kids).kids) |->
                   getAttribute(Head(kids).kids[j].kids[1], "ANNOTATION_ID")]
          ELSE <<>>) \o AnnotationIdsOf(Tail(kids))

Repeats(ids) == \E i, j \in 1..Len(ids) : i < j /\ ids[i] = ids[j]

\* C2: annotation IDs are unique across the whole document: an annotation
\* whose ID an annotation of any tier of the document already holds is
\* refused with an error, by tier.add_annotation, by add_tier and by the
\* decoding of a TIER alike, and annotations_dict still maps the ID to the
\* annotation that held it first.
C2_DuplicateAnnotationIdRefused ==
    /\ (/\ file_last.op = "add_annotation"
        /\ file_last.arg[2].annotation_id \in HeldIds(file_last.before.tiers)) =>
          /\ file_last.exc # "ok"
          /\ file_last.arg[2].annotation_id \in DOMAIN Held.annotations_dict
          /\ Held.annotations_dict[file_last.arg[2].annotation_id] =
                 FirstPlace(file_last.before.tiers, file_last.arg[2].annotation_id)
    /\ (/\ file_last.op = "add_tier"
        /\ file_last.arg # Foreign
        /\ \E j \in 1..Len(file_last.arg.annotations) :
              file_last.arg.annotations[j].annotation_id \in HeldIds(file_last.before.tiers)) =>
          /\ file_last.exc # "ok"
          /\ \A id \in HeldIds(file_last.before.tiers) :
                /\ id \in DOMAIN Held.annotations_dict
                /\ Held.annotations_dict[id] = FirstPlace(file_last.before.tiers, id)
    /\ (/\ file_last.op = "parse_xml"
        /\ Repeats(AnnotationIdsOf(file_last.arg.kids))) =>
          file_last.exc # "ok"

(***************************************************************************)
(* A decoded document and the annotations on it: what the annotations      *)
(* answer through the document, while the values of its time slots change. *)
(***************************************************************************)
SlotNode(id, value) ==
    Element("TIME_SLOT", <<<<"TIME_SLOT_ID", id>>>> \o Attr("TIME_VALUE", value), <<>>, None)

AlignableOn(id, value, ref1, ref2) ==
    Element("ANNOTATION", <<>>,
            <<Element("ALIGNABLE_ANNOTATION",
                      <<<<"ANNOTATION_ID", id>>, <<"TIME_SLOT_REF1", ref1>>,
                        <<"TIME_SLOT_REF2", ref2>>>>,
                      <<Element("ANNOTATION_VALUE", <<>>, <<>>, Text(value))>>, None)>>,
            None)

RefTo(id, ref, previous) ==
    Element("ANNOTATION", <<>>,
            <<Element("REF_ANNOTATION",
                      <<<<"ANNOTATION_ID", id>>, <<"ANNOTATION_REF", ref>>>>
                          \o Attr("PREVIOUS_ANNOTATION", previous),
                      <<Element("ANNOTATION_VALUE", <<>>, <<>>, Text(<<"gloss">>))>>, None)>>,
            None)

AnnotatedSlots ==
    {<<SlotNode(<<"ts1">>, <<"0">>), SlotNode(<<"ts2">>, <<"1", "0", "0", "0">>)>>,
     <<SlotNode(<<"ts1">>, <<"0">>), SlotNode(<<"ts2">>, None)>>,
     <<SlotNode(<<"ts1">>, <<"0">>)>>}

AnnotatedTiers ==
    {<<TierNode(<<"t1">>, <<AlignableOn(<<"a1">>, <<"hello">>, <<"ts1">>, <<"ts2">>)>>)>>,
     <<TierNode(<<"t1">>, <<AlignableOn(<<"a1">>, <<"a ", "<", " b">>, <<"ts2">>, <<"ts1">>)>>)>>,
     <<TierNode(<<"t1">>, <<AlignableOn(<<"a1">>, <<>>, <<"ts1">>, <<"ts2">>)>>),
       TierNode(<<"t2">>, <<RefTo(<<"a2">>, <<"a1">>, None),
                            RefTo(<<"a3">>, <<"a1">>, <<"a2">>)>>)>>,
     <<TierNode(<<"t1">>, <<AlignableOn(<<"a1">>, <<"hello">>, <<"ts1">>, <<"ts2">>)>>),
       TierNode(<<"t2">>, <<RefTo(<<"a2">>, <<"a9">>, None)>>)>>,
     <<TierNode(<<"t1">>, <<AlignableOn(<<"a1">>, <<"hello">>, <<"ts1">>, <<"ts2">>)>>),
       TierNode(<<"t2">>, <<RefTo(<<"a2">>, <<"a1">>, <<"a9">>)>>)>>}

AnnotatedDocuments ==
    {Element("ANNOTATION_DOCUMENT",
             <<<<"AUTHOR", <<"Jan">>>>, <<"DATE", <<"2013-01-01">>>>,
               <<"VERSION", <<"2.7">>>>>>,
             <<Element("HEADER", <<>>, <<>>, None),
               Element("TIME_ORDER", <<>>, slots, None)>> \o tiers,
             None) : slots \in AnnotatedSlots, tiers \in AnnotatedTiers}

AnnotationIds == {<<"a1">>, <<"a2">>, <<"a3">>, <<"a9">>}

SlotValueArgs == {NoInt, <<0>>, <<250>>}

\* the annotation at a place <<tier, position>> of the document
AnnotationAt(p) == Held.tiers[p[1]].annotations[p[2]]

PlacesOf(cls) ==
    {p \in UNION {{<<i, j>> : j \in 1..Len(Held.tiers[i].annotations)} :
                     i \in 1..Len(Held.tiers)} : AnnotationAt(p).cls = cls}

\* a call that changes nothing
Asked(op, arg, r) ==
    /\ file_last' = [op |-> op, arg |-> arg, before |-> Held, exc |-> r.exc, ret |-> r.ret]
    /\ UNCHANGED <<file_class, elan_file, xml_text, elan_file2, efRest>>

AN_parse_xml ==
    /\ elan_file = NoObject
    /\ \E xml_tree \in AnnotatedDocuments :
        LET r == File_parse_xml(xml_tree) IN
        /\ elan_file' = r.self
        /\ file_last' = [op |-> "parse_xml", arg |-> xml_tree,
                         before |-> ELANFileClassAttributes, exc |-> r.exc,
                         ret |-> NoObject]
        /\ UNCHANGED <<file_class, xml_text, elan_file2, efRest>>

AN_get_annotation_by_id ==
    /\ elan_file # NoObject
    /\ \E annotation_id \in AnnotationIds :
        Asked("get_annotation_by_id", annotation_id,
              File_get_annotation_by_id(elan_file, file_class, annotation_id))

AN_get_tier_by_id ==
    /\ elan_file # NoObject
    /\ \E tier_id \in {<<"t1">>, <<"t2">>, <<"t9">>} :
        Asked("get_tier_by_id", tier_id, File_get_tier_by_id(elan_file, file_class, tier_id))

AN_get_annotation_value ==
    /\ elan_file # NoObject
    /\ \E p \in PlacesOf("ELANAlignableAnnotation") \cup PlacesOf("ELANRefAnnotation") :
        Asked("get_annotation_value", p, Annotation_get_annotation_value(AnnotationAt(p)))

AN_get_start_time ==
    /\ elan_file # NoObject
    /\ \E p \in PlacesOf("ELANAlignableAnnotation") :
        Asked("get_start_time", p,
              AlignableAnnotation_get_start_time(AnnotationAt(p), elan_file))

AN_get_end_time ==
    /\ elan_file # NoObject
    /\ \E p \in PlacesOf("ELANAlignableAnnotation") :
        Asked("get_end_time", p,
              AlignableAnnotation_get_end_time(AnnotationAt(p), elan_file))

AN_len ==
    /\ elan_file # NoObject
    /\ \E p \in PlacesOf("ELANAlignableAnnotation") :
        Asked("len", p, AlignableAnnotation__len__(AnnotationAt(p), elan_file))

AN_get_parent_annotation ==
    /\ elan_file # NoObject
    /\ \E p \in PlacesOf("ELANRefAnnotation") :
        Asked("get_parent_annotation", p,
              RefAnnotation_get_parent_annotation(AnnotationAt(p), elan_file, file_class))

AN_get_previous_annotation ==
    /\ elan_file # NoObject
    /\ \E p \in PlacesOf("ELANRefAnnotation") :
        Asked("get_previous_annotation", p,
              RefAnnotation_get_previous_annotation(AnnotationAt(p), elan_file, file_class))

\* elan_file.get_time_slot_by_id(ID).set_time_value(v)
AN_set_time_value ==
    /\ elan_file # NoObject
    /\ \E ID \in DOMAIN elan_file.time_order.time_slots_dict, v \in SlotValueArgs :
        /\ elan_file' = File_slot_set_time_value(elan_file, ID, v)
        /\ file_last' = [op |-> "set_time_value", arg |-> <<ID, v>>, before |-> Held,
                         exc |-> "ok", ret |-> NoObject]
        /\ UNCHANGED <<file_class, xml_text, elan_file2, efRest>>

AN_to_xml ==
    /\ elan_file # NoObject
    /\ LET r == File_to_xml(elan_file, file_class, <<>>) IN
        /\ xml_text' = r
        /\ file_last' = [op |-> "to_xml", arg |-> <<>>, before |-> Held,
                         exc |-> r.exc, ret |-> r.ret]
        /\ UNCHANGED <<file_class, elan_file, elan_file2, efRest>>

InitAnnotation == TSIdle /\ TOIdle /\ CVIdle /\ LTIdle /\ EFIdle
NextAnnotation ==
    \/ AN_parse_xml
    \/ AN_get_annotation_by_id \/ AN_get_tier_by_id \/ AN_get_annotation_value
    \/ AN_get_start_time \/ AN_get_end_time \/ AN_len
    \/ AN_get_parent_annotation \/ AN_get_previous_annotation
    \/ AN_set_time_value \/ AN_to_xml
SpecAnnotation == InitAnnotation /\ [][NextAnnotation]_vars

\* the reference annotations of the document whose annotation_ref names no
\* annotation, and the document with each of them referring to itself
Dangling(self) ==
    {p \in PlacesOf("ELANRefAnnotation") :
        AnnotationAt(p).annotation_ref \notin DOMAIN self.collections.annotations_dict}

Resolved(self) ==
    LET tiers == self.collections.tiers
        resolved(i) ==
            [j \in 1..Len(tiers[i].annotations) |->
                IF <<i, j>> \in Dangling(self)
                THEN [tiers[i].annotations[j] EXCEPT
                         !.annotation_ref = tiers[i].annotations[j].annotation_id]
                ELSE tiers[i].annotations[j]]
    IN  [self EXCEPT !.collections.tiers =
            [i \in 1..Len(tiers) |-> [tiers[i] EXCEPT !.annotations = resolved(i)]]]

\* the TIER elements of a document as it is read
TierNodesOf(xml_tree) == SelectSeq(xml_tree.kids, LAMBDA k : k.tagName = "TIER")

RefsNowhere(xml_tree) ==
    \E i \in 1..Len(TierNodesOf(xml_tree)) :
        \E j \in 1..Len(TierNodesOf(xml_tree)[i].kids) :
            LET a == TierNodesOf(xml_tree)[i].kids[j].kids[1] IN
            /\ a.tagName = "REF_ANNOTATION"
            /\ getAttribute(a, "ANNOTATION_REF") \notin Range(AnnotationIdsOf(xml_tree.kids))

\* C11: references are resolved lazily.  A document in which the
\* ANNOTATION_REF of a REF_ANNOTATION names no annotation is decoded without
\* error and with all its tiers and annotations; get_parent_annotation of
\* that annotation raises KeyError; and on a document that holds such an
\* annotation the lookups answer and to_xml ends as it ends on the same
\* document with the reference resolved.
C11_LazyReferenceResolution ==
    /\ (file_last.op = "parse_xml" /\ RefsNowhere(file_last.arg)) =>
          /\ file_last.exc = "ok"
          /\ Len(Held.tiers) = Len(TierNodesOf(file_last.arg))
          /\ \A i \in 1..Len(Held.tiers) :
                Len(Held.tiers[i].annotations) = Len(TierNodesOf(file_last.arg)[i].kids)
          /\ DOMAIN Held.annotations_dict = Range(AnnotationIdsOf(file_last.arg.kids))
    /\ file_last.op = "get_parent_annotation" =>
          IF file_last.arg \in Dangling(elan_file)
          THEN file_last.exc = "KeyError"
          ELSE /\ file_last.exc = "ok"
               /\ file_last.ret.annotation_id = AnnotationAt(file_last.arg).annotation_ref
    /\ (elan_file # NoObject /\ Dangling(elan_file) # {}) =>
          /\ file_last.op = "get_annotation_by_id" =>
                (file_last.arg \in DOMAIN Held.annotations_dict => file_last.exc = "ok")
          /\ file_last.op \in {"get_tier_by_id", "get_annotation_value"} =>
                file_last.exc = "ok"
          /\ file_last.op = "to_xml" =>
                /\ file_last.exc = File_to_xml(Resolved(elan_file), file_class, <<>>).exc
                /\ file_last.exc = "ok"

C11_Witness ==
    /\ file_last.op = "get_parent_annotation"
    /\ file_last.arg \in Dangling(elan_file)
    /\ file_last.exc = "KeyError"

\* the time slot an alignable annotation names as its start or its end
SlotNamed(ID) == elan_file.time_order.time_slots_dict[ID]
SlotsHeld == DOMAIN elan_file.time_order.time_slots_dict

\* C12: get_start_time and get_end_time look the slot up in the document's
\* time order at each call: they fail when the time order holds no slot of
\* that ID, they fail when the slot has no time value, and otherwise they
\* return the value the slot has at the time of the call.
C12_TimesResolveAtEachCall ==
    file_last.op \in {"get_start_time", "get_end_time"} =>
        LET ID == IF file_last.op = "get_start_time"
                  THEN AnnotationAt(file_last.arg).start_time_slot
                  ELSE AnnotationAt(file_last.arg).end_time_slot
        IN  IF ID \notin SlotsHeld THEN file_last.exc # "ok"
            ELSE IF ~TimeSlot_has_time_value(SlotNamed(ID)) THEN file_last.exc # "ok"
            ELSE /\ file_last.exc = "ok"
                 /\ file_last.ret = SlotNamed(ID).time_value

\* the distance between two times
Distance(s, e) == IF e >= s THEN e - s ELSE s - e

\* C13: the length of an alignable annotation whose two slots are in the
\* time order and have time values s and e is |e - s|; when one of the two
\* slots has no time value, len() raises an error; and the value of a
\* decoded alignable annotation is the text of its ANNOTATION_VALUE.
C13_DurationAndValue ==
    /\ (/\ file_last.op = "len"
        /\ AnnotationAt(file_last.arg).start_time_slot \in SlotsHeld
        /\ AnnotationAt(file_last.arg).end_time_slot \in SlotsHeld) =>
          LET s == SlotNamed(AnnotationAt(file_last.arg).start_time_slot)
              e == SlotNamed(AnnotationAt(file_last.arg).end_time_slot)
          IN  IF TimeSlot_has_time_value(s) /\ TimeSlot_has_time_value(e)
              THEN /\ file_last.exc = "ok"
                   /\ file_last.ret = <<Distance(s.time_value[1], e.time_value[1])>>
              ELSE file_last.exc # "ok"
    /\ (file_last.op = "parse_xml" /\ file_last.exc = "ok") =>
          \A p \in PlacesOf("ELANAlignableAnnotation") :
              LET text == TierNodesOf(file_last.arg)[p[1]].kids[p[2]].kids[1].kids[1].text IN
              Annotation_get_annotation_value(AnnotationAt(p)).ret =
                  (IF text = None THEN <<>> ELSE text)

C13_Witness ==
    /\ file_last.op = "len"
    /\ file_last.ret = <<1000>>
    /\ SlotNamed(AnnotationAt(file_last.arg).start_time_slot).time_value = <<1000>>
    /\ AnnotationAt(file_last.arg).annotation_value = <<"a ", "<", " b">>

\* C14: get_previous_annotation of a reference annotation that has a
\* previous_annotation looks that ID up in annotations_dict as
\* get_parent_annotation looks up annotation_ref: it returns the annotation
\* registered under the ID, and raises KeyError when there is none.
C14_PreviousResolvesLikeParent ==
    (/\ file_last.op = "get_previous_annotation"
     /\ AnnotationAt(file_last.arg).previous_annotation # None) =>
        LET ID == AnnotationAt(file_last.arg).previous_annotation IN
        IF ID \in DOMAIN Held.annotations_dict
        THEN /\ file_last.exc = "ok"
             /\ file_last.ret = File_get_annotation_by_id(elan_file, file_class, ID).ret
        ELSE file_last.exc = "KeyError"

(***************************************************************************)
(* A document and what is registered with it: tiers, linguistic types,     *)
(* constraints, external references and lexicon references added or        *)
(* decoded, and looked up by their keys.                                   *)
(***************************************************************************)
MaxRegistered == 2

Kinds == {"tier", "linguistic_type", "constraint", "external_reference", "lexicon_reference"}

ListOf(c, kind) ==
    CASE kind = "tier" -> c.tiers
      [] kind = "linguistic_type" -> c.linguistic_types
      [] kind = "constraint" -> c.constraints
      [] kind = "external_reference" -> c.external_references
      [] kind = "lexicon_reference" -> c.lexicon_references

\* the key an object is registered under: what add_* and parse_xml ask it for
KeyOf(kind, e) ==
    CASE kind = "tier" -> e.tier_id
      [] kind = "linguistic_type" -> e.linguistic_type_id
      [] kind = "constraint" -> e.stereotype
      [] kind = "external_reference" -> e.ext_ref_id
      [] kind = "lexicon_reference" -> e.lex_ref_id

Registered(c) ==
    Len(c.tiers) + Len(c.linguistic_types) + Len(c.constraints)
        + Len(c.external_references) + Len(c.lexicon_references)

\* two objects of each kind that have the same key, and one of another key
RegistryArgs(kind) ==
    CASE kind = "tier" ->
            {ELANTier(<<"t1">>, <<"lt1">>, participant, None, None, None) :
                participant \in {None, <<"Ann">>}}
            \cup {ELANTier(<<"t2">>, <<"lt1">>, None, None, None, None)}
      [] kind = "linguistic_type" ->
            {LinguisticType__init__(<<"lt1">>, <<"true">>, None, None, None, None, None).self,
             LinguisticType__init__(<<"lt1">>, None, <<"Symbolic_Association">>,
                                    None, None, None, None).self,
             LinguisticType__init__(<<"lt2">>, <<"true">>, None, None, None, None, None).self}
      [] kind = "constraint" ->
            {ELANConstraint(<<"Time_Subdivision">>, None),
             ELANConstraint(<<"Time_Subdivision">>, <<"subdivides">>),
             ELANConstraint(<<"Included_In">>, None)}
      [] kind = "external_reference" ->
            {ELANExternalReference(<<"er1">>, <<"iso12620">>, <<"http://isocat">>).self,
             ELANExternalReference(<<"er1">>, <<"ecv">>, <<"http://cv">>).self,
             ELANExternalReference(<<"er2">>, <<"ecv">>, <<"http://cv">>).self}
      [] kind = "lexicon_reference" ->
            {ELANLexiconReference(<<"lr1">>, name, <<"lexus">>, <<"http://lexus">>,
                                  <<"l1">>, <<"words">>, None, None) :
                name \in {<<"lexicon">>, <<"other">>}}

RegistryKeys(kind) == {KeyOf(kind, e) : e \in RegistryArgs(kind)} \cup {<<"none">>}

\* the elements parse_xml registers what it decodes from, with the same
\* key twice and with two keys
RegistryNodes ==
    LET lt(id, flag) ==
            Element("LINGUISTIC_TYPE",
                    <<<<"LINGUISTIC_TYPE_ID", id>>, <<"TIME_ALIGNABLE", flag>>>>, <<>>, None)
        con(s, d) ==
            Element("CONSTRAINT", <<<<"STEREOTYPE", s>>>> \o Attr("DESCRIPTION", d), <<>>, None)
        er(id, type) ==
            Element("EXTERNAL_REF", <<<<"EXT_REF_ID", id>>, <<"TYPE", type>>>>, <<>>,
                    <<"http://isocat">>)
        tier(id, participant) ==
            Element("TIER", <<<<"TIER_ID", id>>, <<"LINGUISTIC_TYPE_REF", <<"lt1">>>>>>
                                \o Attr("PARTICIPANT", participant), <<>>, None)
    IN  {<<>>,
         <<tier(<<"t1">>, None), tier(<<"t1">>, <<"Ann">>)>>,
         <<tier(<<"t1">>, None), tier(<<"t2">>, None)>>,
         <<lt(<<"lt1">>, <<"true">>), lt(<<"lt1">>, <<"false">>)>>,
         <<lt(<<"lt1">>, <<"true">>), lt(<<"lt2">>, <<"false">>)>>,
         <<con(<<"Time_Subdivision">>, None), con(<<"Time_Subdivision">>, <<"subdivides">>)>>,
         <<con(<<"Time_Subdivision">>, None), con(<<"Included_In">>, None)>>,
         <<er(<<"er1">>, <<"iso12620">>), er(<<"er1">>, <<"ecv">>)>>,
         <<er(<<"er1">>, <<"iso12620">>), er(<<"er2">>, <<"ecv">>)>>}

RegistryDocuments ==
    {DocumentNode(<<>>, <<>>, <<>>, TwoSlots, rest) : rest \in RegistryNodes}

File_add(kind, self, cls_, e) ==
    CASE kind = "tier" -> File_add_tier(self, cls_, e)
      [] kind = "linguistic_type" -> File_add_linguistic_type(self, cls_, e)
      [] kind = "constraint" -> File_add_constraint(self, cls_, e)
      [] kind = "external_reference" -> File_add_external_reference(self, cls_, e)
      [] kind = "lexicon_reference" -> File_add_lexicon_reference(self, cls_, e)

File_get(kind, self, cls_, key) ==
    CASE kind = "tier" -> File_get_tier_by_id(self, cls_, key)
      [] kind = "linguistic_type" -> File_get_linguistic_type_by_id(self, cls_, key)
      [] kind = "constraint" -> File_get_constraint_by_stereotype(self, cls_, key)
      [] kind = "external_reference" -> File_get_external_reference_by_id(self, cls_, key)
      [] kind = "lexicon_reference" -> File_get_lexicon_reference_by_id(self, cls_, key)

RG_parse_xml ==
    /\ elan_file = NoObject
    /\ \E xml_tree \in RegistryDocuments :
        LET r == File_parse_xml(xml_tree) IN
        /\ elan_file' = r.self
        /\ file_last' = [op |-> "parse_xml", kind |-> "all", arg |-> xml_tree,
                         before |-> ELANFileClassAttributes, exc |-> r.exc,
                         ret |-> NoObject]
        /\ UNCHANGED <<file_class, xml_text, elan_file2, efRest>>

RG_new ==
    /\ elan_file = NoObject
    /\ elan_file' = ELANFile
    /\ file_last' = [op |-> "ELANFile", kind |-> "all", arg |-> None, before |-> Held,
                     exc |-> "ok", ret |-> NoObject]
    /\ UNCHANGED <<file_class, xml_text, elan_file2, efRest>>

\* add_tier, add_linguistic_type, add_constraint, add_external_reference,
\* add_lexicon_reference
RG_add ==
    /\ elan_file # NoObject
    /\ Registered(Held) < MaxRegistered
    /\ \E kind \in Kinds :
        \E e \in RegistryArgs(kind) \cup {Foreign} :
            LET r == File_add(kind, elan_file, file_class, e) IN
            /\ elan_file' = r.self
            /\ file_class' = r.cls_
            /\ file_last' = [op |-> "add", kind |-> kind, arg |-> e, before |-> Held,
                             exc |-> r.exc, ret |-> NoObject]
            /\ UNCHANGED <<xml_text, elan_file2, efRest>>

\* get_tier_by_id, get_linguistic_type_by_id, get_constraint_by_stereotype,
\* get_external_reference_by_id, get_lexicon_reference_by_id
RG_get ==
    /\ elan_file # NoObject
    /\ \E kind \in Kinds :
        \E key \in RegistryKeys(kind) :
            LET r == File_get(kind, elan_file, file_class, key) IN
            /\ file_last' = [op |-> "get", kind |-> kind, arg |-> key, before |-> Held,
                             exc |-> r.exc, ret |-> r.ret]
            /\ UNCHANGED <<file_class, elan_file, xml_text, elan_file2, efRest>>

RG_get_time_slot_by_id ==
    /\ elan_file # NoObject
    /\ \E key \in {<<"ts1">>, <<"ts2">>, <<"none">>} :
        LET r == File_get_time_slot_by_id(elan_file, file_class, key) IN
        /\ file_last' = [op |-> "get", kind |-> "time_slot", arg |-> key, before |-> Held,
                         exc |-> r.exc, ret |-> r.ret]
        /\ UNCHANGED <<file_class, elan_file, xml_text, elan_file2, efRest>>

InitRegistry == TSIdle /\ TOIdle /\ CVIdle /\ LTIdle /\ EFIdle
NextRegistry == RG_new \/ RG_parse_xml \/ RG_add \/ RG_get \/ RG_get_time_slot_by_id
SpecRegistry == InitRegistry /\ [][NextRegistry]_vars

\* the objects of a list that have a key
WithKey(kind, list, key) == {i \in 1..Len(list) : KeyOf(kind, list[i]) = key}

\* C15: every registry of the document takes a key once: add_tier,
\* add_linguistic_type, add_constraint, add_external_reference and
\* add_lexicon_reference raise an error for an object whose key is already
\* registered, the decoding of the element does the same, and so no list of
\* the document ever holds two objects of one key.
C15_InsertOnce ==
    /\ (/\ file_last.op = "add"
        /\ file_last.arg # Foreign
        /\ WithKey(file_last.kind, ListOf(file_last.before, file_last.kind),
                   KeyOf(file_last.kind, file_last.arg)) # {}) =>
          file_last.exc # "ok"
    /\ elan_file # NoObject =>
          \A kind \in Kinds :
              \A i, j \in 1..Len(ListOf(Held, kind)) :
                  KeyOf(kind, ListOf(Held, kind)[i]) = KeyOf(kind, ListOf(Held, kind)[j])
                      => i = j

\* C16: a lookup by a key under which an object was decoded or added
\* returns an object registered under that key, and a lookup by a key that
\* was never registered returns None; neither raises an error.
C16_LookupReturnsRegistered ==
    file_last.op = "get" =>
        /\ file_last.exc = "ok"
        /\ IF file_last.kind = "time_slot"
           THEN IF elan_file.time_order # NoObject
                   /\ file_last.arg \in DOMAIN elan_file.time_order.time_slots_dict
                THEN file_last.ret = elan_file.time_order.time_slots_dict[file_last.arg]
                ELSE file_last.ret = NoObject
           ELSE LET list == ListOf(Held, file_last.kind) IN
                IF WithKey(file_last.kind, list, file_last.arg) # {}
                THEN \E i \in WithKey(file_last.kind, list, file_last.arg) :
                        file_last.ret = list[i]
                ELSE file_last.ret = NoObject

(***************************************************************************)
(* The text to_xml returned, element by element.                           *)
(***************************************************************************)
\* the text of the document encoded last, and its elements by kind
Encoded == file_last.op = "to_xml" /\ file_last.exc = "ok"
HeaderOf(text) == text.kids[1]
KidsNamed(text, tagName) == SelectSeq(text.kids, LAMBDA k : k.tagName = tagName)

\* an optional attribute is written exactly when the object has a value for
\* it, and what is written is that value
Optional(el, name, value) ==
    IF value = None THEN ~hasAttribute(el, name)
    ELSE hasAttribute(el, name) /\ getAttribute(el, name) = escape(value)

OptionalOfAnnotation(el, a) ==
    /\ Optional(el, "EXT_REF", a.external_ref)
    /\ a.cls = "ELANAlignableAnnotation" => Optional(el, "SVG_REF", a.svg_ref)
    /\ a.cls = "ELANRefAnnotation" =>
          Optional(el, "PREVIOUS_ANNOTATION", a.previous_annotation)

OptionalOfTier(el, tier) ==
    /\ Optional(el, "PARTICIPANT", tier.participant)
    /\ Optional(el, "ANNOTATOR", tier.annotator)
    /\ Optional(el, "DEFAULT_LOCALE", tier.default_locale)
    /\ Optional(el, "PARENT_REF", tier.parent_tier_ref)
    /\ \A j \in 1..Len(tier.annotations) :
          OptionalOfAnnotation(el.kids[j].kids[1], tier.annotations[j])

OptionalOfLinguisticType(el, lt) ==
    /\ hasAttribute(el, "TIME_ALIGNABLE") <=> lt.time_alignable # None
    /\ hasAttribute(el, "GRAPHIC_REFERENCES") <=> lt.graphic_references # None
    /\ Optional(el, "CONSTRAINTS", lt.constraints)
    /\ Optional(el, "CONTROLLED_VOCABULARY_REF", lt.controlled_vocabulary_ref)
    /\ Optional(el, "EXT_REF", lt.external_ref)
    /\ Optional(el, "LEXICON_REF", lt.lexicon_ref)

OptionalOfLexiconReference(el, lr) ==
    /\ Optional(el, "DATCAT_ID", lr.datcat_id)
    /\ Optional(el, "DATCAT_NAME", lr.datcat_name)

\* every optional attribute below ANNOTATION_DOCUMENT and HEADER
OptionalOfEntities(text, self, c) ==
    /\ \A i \in 1..Len(self.time_order.time_slots) :
          hasAttribute(KidsNamed(text, "TIME_ORDER")[1].kids[i], "TIME_VALUE")
              <=> TimeSlot_has_time_value(self.time_order.time_slots[i])
    /\ \A i \in 1..Len(c.tiers) : OptionalOfTier(KidsNamed(text, "TIER")[i], c.tiers[i])
    /\ \A i \in 1..Len(c.linguistic_types) :
          OptionalOfLinguisticType(KidsNamed(text, "LINGUISTIC_TYPE")[i], c.linguistic_types[i])
    /\ \A i \in 1..Len(c.constraints) :
          Optional(KidsNamed(text, "CONSTRAINT")[i], "DESCRIPTION", c.constraints[i].description)
    /\ \A i \in 1..Len(c.lexicon_references) :
          OptionalOfLexiconReference(KidsNamed(text, "LEXICON_REF")[i], c.lexicon_references[i])

\* FORMAT and TIME_UNITS: the value the document has, or the default
FormatAndUnits(text, self) ==
    /\ getAttribute(text, "FORMAT") =
          (IF self.format # None THEN escape(self.format) ELSE <<"2.7">>)
    /\ getAttribute(HeaderOf(text), "TIME_UNITS") =
          (IF self.time_units # None THEN escape(self.time_units) ELSE <<"milliseconds">>)

\* C17 as stated: to_xml writes an optional attribute only when the
\* document has a value for it, and FORMAT="2.7" and
\* TIME_UNITS="milliseconds" are the only two attributes it writes for a
\* field that has none; a format and time units the document has are
\* written as they are.
C17_OnlyTwoDefaults ==
    Encoded =>
        /\ FormatAndUnits(xml_text.ret, elan_file)
        /\ OptionalOfEntities(xml_text.ret, elan_file, Held)
        /\ Optional(HeaderOf(xml_text.ret), "MEDIA_FILE",
                    IF elan_file.media_file = Unset THEN None ELSE elan_file.media_file)

\* C17, amended: as above for every optional attribute but MEDIA_FILE of
\* HEADER, which to_xml writes with an empty value whatever the document
\* has: FORMAT="2.7", TIME_UNITS="milliseconds" and MEDIA_FILE="" are the
\* three attributes written for a field without value.
C17_OptionalAttributes ==
    Encoded =>
        /\ FormatAndUnits(xml_text.ret, elan_file)
        /\ OptionalOfEntities(xml_text.ret, elan_file, Held)
        /\ HeaderOf(xml_text.ret).attrs =
              <<<<"MEDIA_FILE", <<>>>>,
                <<"TIME_UNITS", getAttribute(HeaderOf(xml_text.ret), "TIME_UNITS")>>>>

C17_Witness ==
    /\ Encoded
    /\ elan_file.format = None
    /\ elan_file.time_units # None
    /\ \E i \in 1..Len(Held.tiers) : \E j \in 1..Len(Held.tiers[i].annotations) :
          Held.tiers[i].annotations[j].external_ref # None
    /\ \E i \in 1..Len(Held.linguistic_types) : Held.linguistic_types[i].constraints = None

(***************************************************************************)
(* The order of what to_xml writes: a document decoded, given properties   *)
(* and objects in any sequence, and encoded.  The properties are a dict,   *)
(* and the order in which "for prop in self.properties" meets its keys is  *)
(* the interpreter's: the order of insertion from Python 3.7 on, any order *)
(* before.                                                                 *)
(***************************************************************************)
PropertyNode(name, value) == Element("PROPERTY", Attr("NAME", name), <<>>, value)

OrderedDocuments ==
    {DocumentNode(<<<<"AUTHOR", <<"Jan">>>>, <<"DATE", <<"2013-01-01">>>>,
                    <<"VERSION", <<"2.7">>>>>>,
                  <<>>, properties, TwoSlots, rest) :
        properties \in {<<>>, <<PropertyNode(<<"a">>, <<"1">>)>>,
                        <<PropertyNode(<<"b">>, <<"2">>), PropertyNode(<<"a">>, <<"1">>)>>},
        rest \in {<<>>,
                  <<TierNode(<<"t1">>, <<>>),
                    Element("CONSTRAINT", Attr("STEREOTYPE", <<"Included_In">>), <<>>, None),
                    Element("LINGUISTIC_TYPE",
                            <<<<"LINGUISTIC_TYPE_ID", <<"lt1">>>>,
                              <<"TIME_ALIGNABLE", <<"true">>>>>>, <<>>, None)>>}}

OR_parse_xml ==
    /\ elan_file = NoObject
    /\ \E xml_tree \in OrderedDocuments :
        LET r == File_parse_xml(xml_tree) IN
        /\ elan_file' = r.self
        /\ file_last' = [op |-> "parse_xml", kind |-> "all", arg |-> xml_tree,
                         before |-> ELANFileClassAttributes, exc |-> r.exc,
                         ret |-> NoObject]
        /\ inserted' = PropertyNamesOf(xml_tree)
        /\ UNCHANGED <<file_class, xml_text, elan_file2, ordRest>>

OR_set_property ==
    /\ elan_file # NoObject
    /\ \E prop \in {<<"a">>, <<"b">>}, value \in {<<"3">>} :
        LET r == File_set_property(elan_file, file_class, prop, value) IN
        /\ elan_file' = r.self
        /\ file_class' = r.cls_
        /\ file_last' = [op |-> "set_property", kind |-> "property", arg |-> <<prop, value>>,
                         before |-> Held, exc |-> r.exc, ret |-> NoObject]
        /\ inserted' = IF prop \in Range(inserted) THEN inserted ELSE Append(inserted, prop)
        /\ UNCHANGED <<xml_text, elan_file2, ordRest>>

\* add_tier, add_linguistic_type
OR_add ==
    /\ elan_file # NoObject
    /\ Registered(Held) < MaxRegistered
    /\ \E kind \in {"tier", "linguistic_type"} :
        \E e \in RegistryArgs(kind) :
            LET r == File_add(kind, elan_file, file_class, e) IN
            /\ elan_file' = r.self
            /\ file_class' = r.cls_
            /\ file_last' = [op |-> "add", kind |-> kind, arg |-> e, before |-> Held,
                             exc |-> r.exc, ret |-> NoObject]
            /\ UNCHANGED <<xml_text, elan_file2, efRest>>

OR_to_xml ==
    /\ elan_file # NoObject
    /\ \E order \in Orders(DOMAIN Held.properties) :
        LET r == File_to_xml(elan_file, file_class, order) IN
        /\ xml_text' = r
        /\ file_last' = [op |-> "to_xml", kind |-> "all", arg |-> order, before |-> Held,
                         exc |-> r.exc, ret |-> NoObject]
        /\ UNCHANGED <<file_class, elan_file, elan_file2, inserted, ordRest>>

InitOrder == TSIdle /\ TOIdle /\ CVIdle /\ LTIdle /\ EFIdle
NextOrder == OR_parse_xml \/ OR_set_property \/ OR_add \/ OR_to_xml
SpecOrder == InitOrder /\ [][NextOrder]_vars

\* n elements of one name
Repeated(tagName, n) == [i \in 1..n |-> tagName]

TagsOf(kids) == [i \in 1..Len(kids) |-> kids[i].tagName]

\* the attribute of each element of a sequence, and the keys of a list
AttributeOfEach(kids, name) == [i \in 1..Len(kids) |-> getAttribute(kids[i], name)]
KeysOf(kind, list) == [i \in 1..Len(list) |-> escape(KeyOf(kind, list[i]))]

ToXmlCalled == file_last.op = "to_xml"

\* the text to_xml had built when it reached the self-check
Built == File_to_xml_node(elan_file, file_class, file_last.arg)

\* C19: to_xml returns a text only when dom.parseString accepted the whole of
\* it; when the text it built is not accepted, to_xml raises RuntimeError
\* and returns nothing.
C19_SelfCheckedEncode ==
    ToXmlCalled =>
        /\ xml_text.exc = "ok" =>
              /\ xml_text.ret = Built.ret
              /\ dom_parseString(xml_text.ret).exc = "ok"
        /\ (Built.exc = "ok" /\ dom_parseString(Built.ret).exc # "ok") =>
              /\ xml_text.exc = "RuntimeError"
              /\ xml_text.ret = NoObject

\* to_xml built a text that dom.parseString refuses, and raised
C19_Witness ==
    /\ ToXmlCalled
    /\ Built.exc = "ok"
    /\ ~WellFormed(Built.ret)
    /\ xml_text.exc = "RuntimeError"

\* C20: whatever characters the values of a document hold (<, >, &, the
\* double quote), the text to_xml builds is well-formed, to_xml returns it,
\* and the root attributes decoded from it are the values the document held.
C20_EncodeAcceptsEveryCharacter ==
    (ToXmlCalled /\ Built.exc = "ok") =>
        /\ WellFormed(Built.ret)
        /\ xml_text.exc = "ok"
        /\ LET root == dom_parseString(xml_text.ret).ret IN
            /\ getAttribute(root, "AUTHOR") = elan_file.author
            /\ getAttribute(root, "DATE") = elan_file.date
            /\ getAttribute(root, "VERSION") = elan_file.version

(***************************************************************************)
(* parse_xml and the grammar of the format.  Every document offered holds  *)
(* one element of each of two kinds with all of its required attributes or *)
(* all but one: the root element, and one other element put where the      *)
(* format has it.  Others have a root that is not ANNOTATION_DOCUMENT or an *)
(* element parse_xml does not know below the root or below HEADER.         *)
(***************************************************************************)
\* the required attributes of each element, each with two values
Required(tagName) ==
    CASE tagName = "ANNOTATION_DOCUMENT" ->
            <<<<"AUTHOR", <<"Jan">>, <<"R", "&", "D">>>>,
              <<"DATE", <<"2013-01-01">>, <<"2016-06-01">>>>,
              <<"VERSION", <<"2.7">>, <<"2.8">>>>>>
      [] tagName = "MEDIA_DESCRIPTOR" ->
            <<<<"MEDIA_URL", <<"file:///a.wav">>, <<"file:///b.mpg">>>>,
              <<"MIME_TYPE", <<"audio/x-wav">>, <<"video/mpeg">>>>>>
      [] tagName = "LINKED_FILE_DESCRIPTOR" ->
            <<<<"LINK_URL", <<"file:///a.txt">>, <<"file:///b.txt">>>>,
              <<"MIME_TYPE", <<"text/plain">>, <<"unknown">>>>>>
      [] tagName = "PROPERTY" -> <<<<"NAME", <<"a">>, <<"b">>>>>>
      [] tagName = "TIME_SLOT" -> <<<<"TIME_SLOT_ID", <<"ts3">>, <<"ts4">>>>>>
      [] tagName = "TIER" ->
            <<<<"TIER_ID", <<"t1">>, <<"t2">>>>,
              <<"LINGUISTIC_TYPE_REF", <<"lt1">>, <<"lt2">>>>>>
      [] tagName = "ALIGNABLE_ANNOTATION" ->
            <<<<"ANNOTATION_ID", <<"a1">>, <<"a2">>>>,
              <<"TIME_SLOT_REF1", <<"ts1">>, <<"ts2">>>>,
              <<"TIME_SLOT_REF2", <<"ts2">>, <<"ts1">>>>>>
      [] tagName = "REF_ANNOTATION" ->
            <<<<"ANNOTATION_ID", <<"a1">>, <<"a2">>>>,
              <<"ANNOTATION_REF", <<"a7">>, <<"a9">>>>>>
      [] tagName = "LINGUISTIC_TYPE" -> <<<<"LINGUISTIC_TYPE_ID", <<"lt1">>, <<"lt2">>>>>>
      [] tagName = "CONSTRAINT" ->
            <<<<"STEREOTYPE", <<"Time_Subdivision">>, <<"Included_In">>>>>>
      [] tagName = "CONTROLLED_VOCABULARY" -> <<<<"CV_ID", <<"cv1">>, <<"cv2">>>>>>
      [] tagName = "EXTERNAL_REF" ->
            <<<<"EXT_REF_ID", <<"er1">>, <<"er2">>>>,
              <<"TYPE", <<"iso12620">>, <<"ecv">>>>>>
      [] tagName = "LOCALE" -> <<<<"LANGUAGE_CODE", <<"en">>, <<"de">>>>>>
      [] tagName = "LEXICON_REF" ->
            <<<<"LEX_REF_ID", <<"lr1">>, <<"lr2">>>>,
              <<"NAME", <<"lexicon">>, <<"lexique">>>>,
              <<"TYPE", <<"lexus">>, <<"toolbox">>>>,
              <<"URL", <<"http://lexus">>, <<"http://toolbox">>>>,
              <<"LEXICON_ID", <<"l1">>, <<"l2">>>>,
              <<"LEXICON_NAME", <<"words">>, <<"mots">>>>>>

RootTag == "ANNOTATION_DOCUMENT"
HeaderTags == {"MEDIA_DESCRIPTOR", "LINKED_FILE_DESCRIPTOR", "PROPERTY"}
AnnotationTags == {"ALIGNABLE_ANNOTATION", "REF_ANNOTATION"}
DocumentTags ==
    {"TIER", "LINGUISTIC_TYPE", "CONSTRAINT", "CONTROLLED_VOCABULARY", "EXTERNAL_REF",
     "LOCALE", "LEXICON_REF"}
ProbedTags == HeaderTags \cup {"TIME_SLOT"} \cup AnnotationTags \cup DocumentTags

\* the names of the required attributes of an element
RequiredNames(tagName) == {Required(tagName)[i][1] : i \in 1..Len(Required(tagName))}

\* the required attributes of an element with their v-th values, the one
\* named dropped left out ("" drops none)
RequiredAttrs(tagName, dropped, v) ==
    LET all == [i \in 1..Len(Required(tagName)) |->
                    <<Required(tagName)[i][1], Required(tagName)[i][v + 1]>>]
    IN  SelectSeq(all, LAMBDA a : a[1] # dropped)

\* the element, with the content the format asks of it beside attributes
ProbeElement(tagName, dropped, v) ==
    LET attrs == RequiredAttrs(tagName, dropped, v) IN
    CASE tagName = "PROPERTY" -> Element(tagName, attrs, <<>>, <<"1">>)
      [] tagName = "EXTERNAL_REF" -> Element(tagName, attrs, <<>>, <<"http://isocat">>)
      [] tagName = "LINGUISTIC_TYPE" ->
            Element(tagName, attrs \o <<<<"TIME_ALIGNABLE", <<"true">>>>>>, <<>>, None)
      [] tagName = "CONTROLLED_VOCABULARY" ->
            Element(tagName, attrs,
                    <<Element("CV_ENTRY", <<>>, <<>>, EntryValueOf(1))>>, None)
      [] tagName \in AnnotationTags ->
            Element(tagName, attrs,
                    <<Element("ANNOTATION_VALUE", <<>>, <<>>, <<"hello">>)>>, None)
      [] OTHER -> Element(tagName, attrs, <<>>, None)

\* the document around the element
ProbeDocument(rootDropped, tagName, dropped, v) ==
    LET el == ProbeElement(tagName, dropped, v)
        slot(id, value) ==
            Element("TIME_SLOT", <<<<"TIME_SLOT_ID", id>>, <<"TIME_VALUE", value>>>>,
                    <<>>, None)
        slots == <<slot(<<"ts1">>, <<"0">>), slot(<<"ts2">>, <<"1", "0", "0", "0">>)>>
    IN
    Element(RootTag, RequiredAttrs(RootTag, rootDropped, v),
            <<Element("HEADER", <<>>, IF tagName \in HeaderTags THEN <<el>> ELSE <<>>, None),
              Element("TIME_ORDER", <<>>,
                      slots \o (IF tagName = "TIME_SLOT" THEN <<el>> ELSE <<>>), None)>>
            \o (IF tagName \in AnnotationTags
                THEN <<TierNode(<<"t1">>, <<Element("ANNOTATION", <<>>, <<el>>, None)>>)>>
                ELSE IF tagName \in DocumentTags THEN <<el>> ELSE <<>>),
            None)

ProbeDocuments ==
    {ProbeDocument(rootDropped, tagName, dropped, v) :
        rootDropped \in RequiredNames(RootTag) \cup {""},
        tagName \in ProbedTags,
        dropped \in UNION {RequiredNames(t) : t \in ProbedTags} \cup {""},
        v \in {1, 2}}

\* documents with an element the format does not have
UnknownTag == "LICENSE"
UnknownDocuments ==
    {Element("ANNOTATION_DOC", RequiredAttrs(RootTag, "", 1), <<>>, None),
     Element(UnknownTag, <<>>, <<>>, None)}
    \cup {Element(RootTag, RequiredAttrs(RootTag, "", v),
                  <<Element("HEADER", <<>>, header, None)>> \o rest, None) :
            v \in {1, 2},
            header \in {<<>>, <<Element(UnknownTag, <<>>, <<>>, None)>>,
                        <<ProbeElement("PROPERTY", "", 1),
                          Element(UnknownTag, <<>>, <<>>, None)>>},
            rest \in {<<>>, <<Element(UnknownTag, <<>>, <<>>, None)>>,
                      <<ProbeElement("LOCALE", "", 1), Element(UnknownTag, <<>>, <<>>, None)>>,
                      <<Element(UnknownTag, <<>>, <<>>, None), ProbeElement("LOCALE", "", 1)>>}}

DecodeDocuments == ProbeDocuments \cup UnknownDocuments

\* elan_file = ELANFile.parse_xml(xml_tree, file_name): an exception leaves
\* the caller without a document
DE_parse_xml ==
    \E xml_tree \in DecodeDocuments :
        LET r == File_parse_xml(xml_tree) IN
        /\ elan_file' = r.self
        /\ cv_class' = r.cv_cls
        /\ file_last' = [op |-> "parse_xml", arg |-> xml_tree,
                         before |-> ELANFileClassAttributes, exc |-> r.exc]
        /\ inserted' = IF r.exc = "ok" THEN PropertyNamesOf(xml_tree) ELSE <<>>
        /\ UNCHANGED <<file_class, xml_text, elan_file2, cv_obj, cv_last,
                       tsVars, toVars, ltVars>>

InitDecode == TSIdle /\ TOIdle /\ CVIdle /\ LTIdle /\ EFIdle
NextDecode == DE_parse_xml
SpecDecode == InitDecode /\ [][NextDecode]_vars

\* an element parse_xml has no branch for, below the root or below HEADER
KnownDocumentTags == {"HEADER", "TIME_ORDER"} \cup DocumentTags
HasUnknown(xml_tree) ==
    \/ xml_tree.tagName # RootTag
    \/ \E i \in 1..Len(xml_tree.kids) :
          \/ xml_tree.kids[i].tagName \notin KnownDocumentTags
          \/ /\ xml_tree.kids[i].tagName = "HEADER"
             /\ \E j \in 1..Len(xml_tree.kids[i].kids) :
                    xml_tree.kids[i].kids[j].tagName \notin HeaderTags

\* C21: a document whose root is not ANNOTATION_DOCUMENT, or that has an
\* element of an unknown kind directly below the root or below HEADER, makes
\* parse_xml raise; and whenever parse_xml raises, for whatever reason, the
\* caller holds no document, complete or partial.
C21_DecodeAllOrNothing ==
    file_last.op = "parse_xml" =>
        /\ HasUnknown(file_last.arg) => file_last.exc = "RuntimeError"
        /\ file_last.exc # "ok" => elan_file = NoObject
        /\ file_last.exc = "ok" => elan_file # NoObject

\* an unknown element that follows a LOCALE, which parse_xml had decoded and
\* appended when it met the unknown one, made the decode fail
C21_Witness ==
    /\ file_last.op = "parse_xml"
    /\ file_last.arg.tagName = RootTag
    /\ Len(file_last.arg.kids) = 3
    /\ file_last.arg.kids[2].tagName = "LOCALE"
    /\ file_last.arg.kids[3].tagName = UnknownTag
    /\ file_last.exc = "RuntimeError"
    /\ elan_file = NoObject

\* what the decode of ProbeDocument("", tagName, "", v) stored for the
\* required attributes of the element, in the order of Required
Stored(tagName) ==
    LET c == elan_file.collections IN
    CASE tagName = RootTag -> <<elan_file.author, elan_file.date, elan_file.version>>
      [] tagName = "MEDIA_DESCRIPTOR" ->
            <<c.media_files[1].media_url, c.media_files[1].mime_type>>
      [] tagName = "LINKED_FILE_DESCRIPTOR" ->
            <<c.linked_files[1].link_url, c.linked_files[1].mime_type>>
      [] tagName = "PROPERTY" -> <<CHOOSE prop \in DOMAIN c.properties : TRUE>>
      [] tagName = "TIME_SLOT" -> <<elan_file.time_order.time_slots[3].ID>>
      [] tagName = "TIER" -> <<c.tiers[1].tier_id, c.tiers[1].linguistic_type>>
      [] tagName = "ALIGNABLE_ANNOTATION" ->
            <<c.tiers[1].annotations[1].annotation_id,
              c.tiers[1].annotations[1].start_time_slot,
              c.tiers[1].annotations[1].end_time_slot>>
      [] tagName = "REF_ANNOTATION" ->
            <<c.tiers[1].annotations[1].annotation_id,
              c.tiers[1].annotations[1].annotation_ref>>
      [] tagName = "LINGUISTIC_TYPE" -> <<c.linguistic_types[1].linguistic_type_id>>
      [] tagName = "CONSTRAINT" -> <<c.constraints[1].stereotype>>
      [] tagName = "CONTROLLED_VOCABULARY" -> <<c.controlled_vocabularies[1].cv_id>>
      [] tagName = "EXTERNAL_REF" ->
            <<c.external_references[1].ext_ref_id, c.external_references[1].ext_ref_type>>
      [] tagName = "LOCALE" -> <<c.locales[1].language_code>>
      [] tagName = "LEXICON_REF" ->
            <<c.lexicon_references[1].lex_ref_id, c.lexicon_references[1].lex_ref_name,
              c.lexicon_references[1].lex_ref_type, c.lexicon_references[1].url,
              c.lexicon_references[1].lexicon_id, c.lexicon_references[1].lexicon_name>>

Given(tagName, v) == [i \in 1..Len(Required(tagName)) |-> Required(tagName)[i][v + 1]]

\* C22: the decode of a document in which an element of the grammar table,
\* the root included, lacks one of its required attributes raises and
\* leaves the caller without a document; the decode of a document whose
\* elements have all their required attributes succeeds, and the objects
\* hold the attribute values as they were given.
C22_RequiredAttributes ==
    \A rootDropped \in RequiredNames(RootTag) \cup {""}, tagName \in ProbedTags, v \in {1, 2} :
        \A dropped \in RequiredNames(tagName) \cup {""} :
            (/\ file_last.op = "parse_xml"
             /\ file_last.arg = ProbeDocument(rootDropped, tagName, dropped, v)) =>
                IF rootDropped # "" \/ dropped # ""
                THEN file_last.exc = "RuntimeError" /\ elan_file = NoObject
                ELSE /\ file_last.exc = "ok"
                     /\ Stored(RootTag) = Given(RootTag, v)
                     /\ Stored(tagName) = Given(tagName, v)

(***************************************************************************)
(* The lists of a document and the dictionaries kept beside them.          *)
(***************************************************************************)
\* the dictionary kept beside the list of a kind; it holds positions in
\* that list
DictOf(c, kind) ==
    CASE kind = "tier" -> c.tiers_dict
      [] kind = "linguistic_type" -> c.linguistic_types_dict
      [] kind = "constraint" -> c.constraints_dict
      [] kind = "external_reference" -> c.external_references_dict
      [] kind = "lexicon_reference" -> c.lexicon_references_dict

\* C23: in a document that was decoded and then changed by add_* calls, for
\* every kind of registered object the keys of the objects in the list are
\* pairwise distinct, they are exactly the keys of the dictionary, and the
\* dictionary maps each key to the object of the list that has it.
C23_ListAndIndexAgree ==
    (elan_file # NoObject /\ elan_file.own) =>
        \A kind \in Kinds :
            LET list == ListOf(Held, kind)
                dict == DictOf(Held, kind)
            IN  /\ \A i, j \in 1..Len(list) :
                        KeyOf(kind, list[i]) = KeyOf(kind, list[j]) => i = j
                /\ DOMAIN dict = {KeyOf(kind, list[i]) : i \in 1..Len(list)}
                /\ \A key \in DOMAIN dict :
                        /\ dict[key] \in 1..Len(list)
                        /\ KeyOf(kind, list[dict[key]]) = key

(***************************************************************************)
(* Calls that change a document, a linguistic type or a controlled         *)
(* vocabulary, and what a call that raised left behind.  The object called *)
(* on exists from the start: a document decoded or made by ELANFile(), or  *)
(* a linguistic type, or two vocabularies.                                 *)
(***************************************************************************)
MaxAdded == 2

\* the lists add_media_file, add_linked_file, add_controlled_vocabulary and
\* add_locale append to
Added(c) ==
    Len(c.media_files) + Len(c.linked_files) + Len(c.controlled_vocabularies)
        + Len(c.locales) + Registered(c)

\* the call and the document it was made on
Mutated(op, arg, r) ==
    /\ elan_file' = r.self
    /\ file_class' = r.cls_
    /\ file_last' = [op |-> op, arg |-> arg, self |-> elan_file, before |-> Held,
                     exc |-> r.exc]
    /\ UNCHANGED <<xml_text, elan_file2, efRest>>

MutationDocuments ==
    {DocumentNode(<<>>, <<>>, <<>>, TwoSlots, rest) :
        rest \in {<<>>, <<ProbeElement("TIER", "", 1)>>}}

MU_add_media_file ==
    /\ elan_file # NoObject
    /\ Added(Held) < MaxAdded
    /\ \E media_file \in {ELANMediaDescriptor(<<"file:///a.wav">>, <<"audio/x-wav">>,
                                               None, None, None), Foreign} :
        Mutated("add_media_file", media_file,
                File_add_media_file(elan_file, file_class, media_file))

MU_add_linked_file ==
    /\ elan_file # NoObject
    /\ Added(Held) < MaxAdded
    /\ \E linked_file \in {ELANLinkedFileDescriptor(<<"file:///a.txt">>, <<"text/plain">>,
                                                     None, None, None), Foreign} :
        Mutated("add_linked_file", linked_file,
                File_add_linked_file(elan_file, file_class, linked_file))

MU_add_controlled_vocabulary ==
    /\ elan_file # NoObject
    /\ Added(Held) < MaxAdded
    /\ \E cv \in {ELANControlledVocabulary(<<"cv1">>, None, None), Foreign} :
        Mutated("add_controlled_vocabulary", cv,
                File_add_controlled_vocabulary(elan_file, file_class, cv))

MU_add_locale ==
    /\ elan_file # NoObject
    /\ Added(Held) < MaxAdded
    /\ \E locale \in {ELANLocale(<<"en">>, None, None), Foreign} :
        Mutated("add_locale", locale, File_add_locale(elan_file, file_class, locale))

\* add_tier, add_linguistic_type, add_constraint, add_external_reference,
\* add_lexicon_reference
MU_add ==
    /\ elan_file # NoObject
    /\ Added(Held) < MaxAdded
    /\ \E kind \in Kinds :
        \E e \in {CHOOSE x \in RegistryArgs(kind) : TRUE, Foreign} :
            Mutated("add", e, File_add(kind, elan_file, file_class, e))

MU_add_time_slot ==
    /\ elan_file # NoObject
    /\ \E time_slot \in {ELANTimeSlot(<<"ts1">>, <<0>>), ELANTimeSlot(<<"ts3">>, NoInt),
                          Foreign} :
        Mutated("add_time_slot", time_slot,
                File_add_time_slot(elan_file, file_class, time_slot))

InitMutation ==
    /\ TSIdle /\ TOIdle
    /\ \/ /\ CVIdle /\ LTIdle
          /\ file_class = ELANFileClassAttributes
          /\ elan_file \in {ELANFile} \cup {File_parse_xml(d).self : d \in MutationDocuments}
          /\ xml_text = NoText /\ elan_file2 = NoObject
          /\ file_last = [op |-> "none"] /\ inserted = <<>>
       \/ /\ CVIdle /\ EFIdle
          /\ lt_obj \in {LinguisticType__init__(<<"lt1">>, flag, c, None, None, None, None).self :
                            flag \in {<<"true">>}, c \in {None, <<"Symbolic_Association">>}}
          /\ con_obj = NoObject
          /\ lt_last = [op |-> "none"]
       \/ CVInit /\ LTIdle /\ EFIdle
NextMutation ==
    \/ MU_add_media_file \/ MU_add_linked_file \/ MU_add_controlled_vocabulary
    \/ MU_add_locale \/ MU_add \/ MU_add_time_slot
    \/ LT_set_constraints \/ LT_set_time_alignable
    \/ CV_add
SpecMutation == InitMutation /\ [][NextMutation]_vars

\* C24: a call that raised changed nothing: after an add_* of the document
\* that raised, the document and the lists and dictionaries it reaches are
\* what they were before the call; after a set_constraints or
\* set_time_alignable that raised, the linguistic type is what it was; after
\* an add_cv_entry that raised, the entry list and the entry index are what
\* they were.
C24_FailedMutationChangesNothing ==
    /\ (file_last.op # "none" /\ file_last.exc # "ok") =>
          /\ Held = file_last.before
          /\ elan_file = file_last.self
    /\ (lt_last.op \in {"set_constraints", "set_time_alignable"} /\ lt_last.exc # "ok") =>
          lt_obj = lt_last.before
    /\ (cv_last.op = "add_cv_entry" /\ cv_last.exc # "ok") =>
          cv_class = cv_last.before


(***************************************************************************)
(* The annotation index of a document whose tiers go on receiving          *)
(* annotations.                                                            *)
(***************************************************************************)
\* C25: the annotation index of the document is complete: after decode and
\* any sequence of add_tier and tier.add_annotation, every annotation a tier
\* of the document holds is what get_annotation_by_id returns for its ID, and
\* every entry of the index is an annotation a tier of the document holds.
C25_AnnotationIndexComplete ==
    elan_file # NoObject =>
        /\ \A p \in Places(Held.tiers) :
              File_get_annotation_by_id(elan_file, file_class, IdAt(Held.tiers, p)) =
                  [exc |-> "ok", ret |-> Held.tiers[p[1]].annotations[p[2]]]
        /\ \A x \in DOMAIN Held.annotations_dict :
              Held.annotations_dict[x] \in Places(Held.tiers)

(***************************************************************************)
(* The hierarchy of the tiers of a document: each tier names its parent    *)
(* by parent_tier_ref, and get_parent_tier looks the name up in the        *)
(* document.                                                                *)
(***************************************************************************)
Tier_set_parent_tier_ref(self, parent_tier_ref) ==
    [self EXCEPT !.parent_tier_ref = parent_tier_ref]

\* get_parent_tier of the tier at position i of the document: the position
\* of the tier tiers_dict holds under parent_tier_ref, 0 for None
Tier_get_parent_tier(c, i) ==
    IF c.tiers[i].parent_tier_ref \in DOMAIN c.tiers_dict
    THEN c.tiers_dict[c.tiers[i].parent_tier_ref] ELSE 0

TierIds == {<<"t1">>, <<"t2">>}
ParentRefs == {None} \cup TierIds

ChildTierNode(id, parent_ref) ==
    Element("TIER",
            <<<<"TIER_ID", id>>, <<"LINGUISTIC_TYPE_REF", <<"lt1">>>>>>
                \o (IF parent_ref = None THEN <<>> ELSE Attr("PARENT_REF", parent_ref)),
            <<>>, None)

HierarchyDocuments ==
    {DocumentNode(<<>>, <<>>, <<>>, <<>>, <<ChildTierNode(<<"t1">>, p)>>) : p \in ParentRefs}
    \cup {DocumentNode(<<>>, <<>>, <<>>, <<>>,
                       <<ChildTierNode(<<"t1">>, p), ChildTierNode(<<"t2">>, q)>>) :
             p \in ParentRefs, q \in ParentRefs}

HI_new ==
    /\ elan_file = NoObject
    /\ Assigned("ELANFile", None, ELANFile)

HI_parse_xml ==
    /\ elan_file = NoObject
    /\ \E xml_tree \in HierarchyDocuments :
        LET r == File_parse_xml(xml_tree) IN
        /\ elan_file' = r.self
        /\ file_last' = [op |-> "parse_xml", arg |-> xml_tree,
                         before |-> ELANFileClassAttributes, exc |-> r.exc]
        /\ UNCHANGED <<file_class, xml_text, elan_file2, efRest>>

HI_add_tier ==
    /\ elan_file # NoObject
    /\ Len(Held.tiers) < MaxTiers
    /\ \E id \in TierIds, p \in ParentRefs :
        Changed("add_tier", ELANTier(id, <<"lt1">>, None, None, None, p),
                File_add_tier(elan_file, file_class,
                              ELANTier(id, <<"lt1">>, None, None, None, p)))

\* tier.set_parent_tier_ref(parent_tier_ref) for the tier at position i
HI_set_parent_tier_ref ==
    /\ elan_file # NoObject
    /\ \E i \in 1..Len(Held.tiers), p \in ParentRefs :
        Changed("set_parent_tier_ref", <<i, p>>,
                File_updated(elan_file, file_class,
                             [Held EXCEPT !.tiers[i] = Tier_set_parent_tier_ref(@, p)]))

InitHierarchy == TSIdle /\ TOIdle /\ CVIdle /\ LTIdle /\ EFIdle
NextHierarchy == HI_new \/ HI_parse_xml \/ HI_add_tier \/ HI_set_parent_tier_ref
SpecHierarchy == InitHierarchy /\ [][NextHierarchy]_vars

\* the tier reached from the tier at i by n calls of get_parent_tier
RECURSIVE Ancestor(_, _, _)
Ancestor(c, i, n) ==
    IF n = 0 \/ i = 0 THEN i ELSE Ancestor(c, Tier_get_parent_tier(c, i), n - 1)

OwnAncestor(c, i) == \E n \in 1..Len(c.tiers) : Ancestor(c, i, n) = i

\* C26: the tiers of a document form a forest: after a decode and any
\* sequence of add_tier and set_parent_tier_ref, no tier is reached from
\* itself by following parent references, a tier naming itself included;
\* a decode or a call that would make it so raises and changes nothing.
C26_TierForest ==
    /\ (file_last.op = "parse_xml" /\ file_last.exc = "ok") =>
          \A i \in 1..Len(Held.tiers) : ~OwnAncestor(Held, i)
    /\ (elan_file # NoObject /\ file_last.op \in {"add_tier", "set_parent_tier_ref"}) =>
          /\ \A i \in 1..Len(Held.tiers) : ~OwnAncestor(Held, i)
          /\ file_last.exc # "ok" => Held = file_last.before

(***************************************************************************)
(* The type of an external reference: constructed, decoded in a document,  *)
(* and set again on a reference the document holds.                        *)
(***************************************************************************)
ExternalReference_set_type(self, ext_ref_type) == [self EXCEPT !.ext_ref_type = ext_ref_type]

\* the types of the enumeration and two that are not in it
TypeArgs == ExternalReferenceTypes \cup {<<"url">>, None}

TypedDocuments ==
    {DocumentNode(<<>>, <<>>, <<>>, <<>>,
                  <<Element("EXTERNAL_REF", <<<<"EXT_REF_ID", <<"er1">>>>, <<"TYPE", type>>>>,
                            <<>>, <<"http://isocat">>)>>) :
        type \in TypeArgs \ {None}}

XR_new ==
    /\ elan_file = NoObject
    /\ Assigned("ELANFile", None, ELANFile)

XR_parse_xml ==
    /\ elan_file = NoObject
    /\ \E xml_tree \in TypedDocuments :
        LET r == File_parse_xml(xml_tree) IN
        /\ elan_file' = r.self
        /\ file_last' = [op |-> "parse_xml", arg |-> xml_tree,
                         before |-> ELANFileClassAttributes, exc |-> r.exc]
        /\ UNCHANGED <<file_class, xml_text, elan_file2, efRest>>

\* f.add_external_reference(ELANExternalReference(id, ext_ref_type, value))
XR__init__ ==
    /\ elan_file # NoObject
    /\ Len(Held.external_references) < MaxReferences
    /\ \E id \in {<<"er1">>, <<"er2">>}, ext_ref_type \in TypeArgs :
        LET r == ELANExternalReference(id, ext_ref_type, <<"http://isocat">>) IN
        Changed("ELANExternalReference", ext_ref_type,
                IF r.exc # "ok"
                THEN [exc |-> r.exc, self |-> elan_file, cls_ |-> file_class]
                ELSE File_add_external_reference(elan_file, file_class, r.self))

\* set_type(ext_ref_type) on the reference at position i of the document
XR_set_type ==
    /\ elan_file # NoObject
    /\ \E i \in 1..Len(Held.external_references), ext_ref_type \in TypeArgs :
        Changed("set_type", ext_ref_type,
                File_updated(elan_file, file_class,
                             [Held EXCEPT !.external_references[i] =
                                              ExternalReference_set_type(@, ext_ref_type)]))

InitReference == TSIdle /\ TOIdle /\ CVIdle /\ LTIdle /\ EFIdle
NextReference == XR_new \/ XR_parse_xml \/ XR__init__ \/ XR_set_type
SpecReference == InitReference /\ [][NextReference]_vars

\* C27: the type of an external reference stays in the enumeration
\* iso12620, ecv, cve_id, lexen_id, resource_url: every reference made by
\* the constructor, by a decode or by set_type has one of these types, and
\* the constructor and set_type given any other type raise and change nothing.
C27_TypeInEnumeration ==
    /\ elan_file # NoObject =>
          \A i \in 1..Len(Held.external_references) :
              Held.external_references[i].ext_ref_type \in ExternalReferenceTypes
    /\ (/\ file_last.op \in {"ELANExternalReference", "set_type"}
        /\ file_last.arg \notin ExternalReferenceTypes) =>
          /\ file_last.exc # "ok"
          /\ Held = file_last.before

(***************************************************************************)
(* Two objects of one class side by side: two controlled vocabularies,     *)
(* and two documents, each made by ELANFile() or decoded.                  *)
(***************************************************************************)
\* self.cv_entries and self.cv_entries_dict: no method assigns them on the
\* instance, so every object reads the lists of the class
CV_collections(self, cls_) == cls_

FreshDocuments == {ELANFile} \cup {File_parse_xml(d).self : d \in MutationDocuments}

Document(t) == IF t = 1 THEN elan_file ELSE elan_file2

\* a call on document t that returned r
Called(op, t, arg, r) ==
    /\ elan_file' = IF t = 1 THEN r.self ELSE elan_file
    /\ elan_file2' = IF t = 2 THEN r.self ELSE elan_file2
    /\ file_class' = r.cls_
    /\ file_last' = [op |-> op, target |-> t, arg |-> arg, exc |-> r.exc,
                     before |-> <<File_collections(elan_file, file_class),
                                  File_collections(elan_file2, file_class)>>]
    /\ UNCHANGED <<xml_text, efRest>>

FR_add ==
    /\ elan_file # NoObject
    /\ \E t \in {1, 2}, kind \in {"tier", "linguistic_type", "external_reference"} :
        /\ Added(File_collections(Document(t), file_class)) < MaxAdded
        /\ \E e \in {CHOOSE x \in RegistryArgs(kind) : TRUE} :
            Called("add", t, e, File_add(kind, Document(t), file_class, e))

FR_set_property ==
    /\ elan_file # NoObject
    /\ \E t \in {1, 2}, prop \in {<<"lastUsedAnnotationId">>}, value \in {<<"3">>} :
        Called("set_property", t, <<prop, value>>,
               File_set_property(Document(t), file_class, prop, value))

InitFresh ==
    /\ TSIdle /\ TOIdle /\ LTIdle
    /\ \/ CVInit /\ EFIdle
       \/ /\ CVIdle
          /\ file_class = ELANFileClassAttributes
          /\ elan_file \in FreshDocuments
          /\ elan_file2 \in FreshDocuments
          /\ xml_text = NoText
          /\ file_last = [op |-> "none"] /\ inserted = <<>>
NextFresh == CV_add \/ FR_add \/ FR_set_property
SpecFresh == InitFresh /\ [][NextFresh]_vars

\* C28: every object has collections of its own: add_cv_entry on one
\* controlled vocabulary leaves the entry list and the entry index of the
\* other as they were, and an add_* or set_property on one document leaves
\* every list, index and property of the other document as it was.
C28_FreshCollections ==
    /\ cv_last.op = "add_cv_entry" =>
          \A h \in DOMAIN cv_obj :
              cv_obj[h] # cv_last.self =>
                  CV_collections(cv_obj[h], cv_class) =
                      CV_collections(cv_obj[h], cv_last.before)
    /\ file_last.op \in {"add", "set_property"} =>
          \A t \in {1, 2} :
              t # file_last.target =>
                  File_collections(Document(t), file_class) = file_last.before[t]

(***************************************************************************)
(* The temporal order of alignable annotations: __lt__ and __gt__ of two   *)
(* annotations of a decoded document.                                      *)
(***************************************************************************)
\* x <= y of two time values; None is ordered before every int by Python 2
\* and not ordered at all by Python 3
PyLessEq(x, y, ver) ==
    IF x # NoInt /\ y # NoInt THEN PyBool(x[1] <= y[1])
    ELSE IF ver = 3 THEN "TypeError"
    ELSE PyBool(x = NoInt)

\* 'p and q' of two comparisons of times that were looked up: the lookups
\* and the comparisons are made from left to right, q only when p is True
PyAnd(a, b, p, c, d, q) ==
    IF a.exc # "ok" THEN [exc |-> a.exc, ret |-> NoObject]
    ELSE IF b.exc # "ok" THEN [exc |-> b.exc, ret |-> NoObject]
    ELSE IF p = "TypeError" THEN [exc |-> "TypeError", ret |-> NoObject]
    ELSE IF p = "False" THEN [exc |-> "ok", ret |-> "False"]
    ELSE IF c.exc # "ok" THEN [exc |-> c.exc, ret |-> NoObject]
    ELSE IF d.exc # "ok" THEN [exc |-> d.exc, ret |-> NoObject]
    ELSE IF q = "TypeError" THEN [exc |-> "TypeError", ret |-> NoObject]
    ELSE [exc |-> "ok", ret |-> q]

AlignableAnnotation__lt__(self, other, elan_file_, ver) ==
    LET start_time == AlignableAnnotation_get_start_time(self, elan_file_)
        end_time == AlignableAnnotation_get_end_time(self, elan_file_)
        other_start == AlignableAnnotation_get_start_time(other, elan_file_)
    IN  PyAnd(start_time, other_start, PyLess(start_time.ret, other_start.ret, ver),
              end_time, other_start, PyLessEq(end_time.ret, other_start.ret, ver))

\* __gt__ as it would be without its second test
AlignableAnnotation__gt___after_end(self, other, elan_file_, ver) ==
    LET start_time == AlignableAnnotation_get_start_time(self, elan_file_)
        other_end == AlignableAnnotation_get_end_time(other, elan_file_)
    IN  PyAnd(start_time, other_end, PyLessEq(other_end.ret, start_time.ret, ver),
              start_time, other_end, PyLessEq(other_end.ret, start_time.ret, ver))

AlignableAnnotation__gt__(self, other, elan_file_, ver) ==
    LET start_time == AlignableAnnotation_get_start_time(self, elan_file_)
        other_start == AlignableAnnotation_get_start_time(other, elan_file_)
        other_end == AlignableAnnotation_get_end_time(other, elan_file_)
    IN  PyAnd(start_time, other_end, PyLessEq(other_end.ret, start_time.ret, ver),
              start_time, other_start, PyGreater(start_time.ret, other_start.ret, ver))

\* three anchored slots and one without time value
ComparedSlots ==
    <<SlotNode(<<"ts1">>, <<"0">>), SlotNode(<<"ts2">>, <<"1">>),
      SlotNode(<<"ts3">>, <<"2">>), SlotNode(<<"ts4">>, None)>>

\* the intervals of the annotations: empty, short, long, overlapping,
\* reversed, and one that ends on the slot without time value
Intervals ==
    {<<<<"ts1">>, <<"ts1">>>>, <<<<"ts1">>, <<"ts2">>>>, <<<<"ts2">>, <<"ts3">>>>,
     <<<<"ts1">>, <<"ts3">>>>, <<<<"ts2">>, <<"ts1">>>>, <<<<"ts3">>, <<"ts3">>>>,
     <<<<"ts2">>, <<"ts4">>>>}

ComparedDocuments ==
    {Element("ANNOTATION_DOCUMENT", <<>>,
             <<Element("HEADER", <<>>, <<>>, None),
               Element("TIME_ORDER", <<>>, ComparedSlots, None),
               TierNode(<<"t1">>,
                        <<AlignableOn(<<"a1">>, <<"a">>, x[1], x[2]),
                          AlignableOn(<<"a2">>, <<"b">>, y[1], y[2]),
                          AlignableOn(<<"a3">>, <<"c">>, z[1], z[2])>>)>>,
             None) :
        x \in Intervals, y \in Intervals, z \in Intervals}

CP_parse_xml ==
    /\ elan_file = NoObject
    /\ \E xml_tree \in ComparedDocuments :
        LET r == File_parse_xml(xml_tree) IN
        /\ elan_file' = r.self
        /\ file_last' = [op |-> "parse_xml", arg |-> xml_tree,
                         before |-> ELANFileClassAttributes, exc |-> r.exc,
                         ret |-> NoObject]
        /\ UNCHANGED <<file_class, xml_text, elan_file2, efRest>>

\* a < b for the annotations at the places p and q of the document
CP_lt ==
    /\ elan_file # NoObject
    /\ \E p \in PlacesOf("ELANAlignableAnnotation"), q \in PlacesOf("ELANAlignableAnnotation") :
        Asked("lt", <<p, q>>,
              AlignableAnnotation__lt__(AnnotationAt(p), AnnotationAt(q), elan_file, py))

CP_gt ==
    /\ elan_file # NoObject
    /\ \E p \in PlacesOf("ELANAlignableAnnotation"), q \in PlacesOf("ELANAlignableAnnotation") :
        Asked("gt", <<p, q>>,
              AlignableAnnotation__gt__(AnnotationAt(p), AnnotationAt(q), elan_file, py))

InitCompare == TSIdle /\ TOIdle /\ CVIdle /\ LTIdle /\ EFIdle
NextCompare == CP_parse_xml \/ CP_lt \/ CP_gt
SpecCompare == InitCompare /\ [][NextCompare]_vars

\* an annotation whose two time slots have a time value
Anchored(self, elan_file_) ==
    /\ AlignableAnnotation_get_start_time(self, elan_file_) \notin
           {[exc |-> "ok", ret |-> NoInt]}
    /\ AlignableAnnotation_get_start_time(self, elan_file_).exc = "ok"
    /\ AlignableAnnotation_get_end_time(self, elan_file_) \notin
           {[exc |-> "ok", ret |-> NoInt]}
    /\ AlignableAnnotation_get_end_time(self, elan_file_).exc = "ok"

Less(a, b) == AlignableAnnotation__lt__(a, b, elan_file, py)
Greater(a, b) == AlignableAnnotation__gt__(a, b, elan_file, py)
AnchoredAnnotations ==
    {AnnotationAt(p) : p \in {q \in PlacesOf("ELANAlignableAnnotation") :
                                 Anchored(AnnotationAt(q), elan_file)}}

Str(v) == [cls |-> "str", value |-> v]

\* type(other): the class of the operand, an object that no str equals
PyType(other) == <<"<class>", other.cls>>

ControlledVocabulary__eq__(self, other) ==
    IF PyType(other) = <<"str">> THEN PyBool(self.cv_id = other.value)
    ELSE IF PyType(other) = <<"ELANControlledVocabulary">>
    THEN PyBool(self.cv_id = other.cv_id /\ self.ext_ref = other.ext_ref)
    ELSE "False"

\* returns True where self == other is True
ControlledVocabulary__ne__(self, other) ==
    IF ControlledVocabulary__eq__(self, other) = "True" THEN "True" ELSE "False"

LinguisticType__eq__(self, other) ==
    IF PyType(other) = <<"str">> THEN PyBool(self.linguistic_type_id = other.value)
    ELSE IF PyType(other) = <<"ELANLinguisticType">>
    THEN PyBool(/\ self.linguistic_type_id = other.linguistic_type_id
                /\ self.constraints = other.constraints
                /\ self.time_alignable = other.time_alignable)
    ELSE "False"

LinguisticType__ne__(self, other) ==
    IF LinguisticType__eq__(self, other) = "True" THEN "False" ELSE "True"

ComparedVocabularies ==
    {ELANControlledVocabulary(id, None, x) : id \in {<<"cv1">>, <<"cv2">>}, x \in ExtRefIds}

ComparedTypes ==
    {LinguisticType__init__(id, flag, None, None, None, None, None).self :
        id \in {<<"lt1">>, <<"lt2">>}, flag \in {<<"true">>, <<"false">>}}
    \cup {LinguisticType__init__(<<"lt1">>, None, <<"Symbolic_Association">>,
                                 None, None, None, None).self}

\* the right operands: the other object, the object itself, a str
CVOperands == Range(cv_obj) \cup {Str(id) : id \in {<<"cv1">>, <<"cv2">>}}
LTOperands == ComparedTypes \cup {Str(id) : id \in {<<"lt1">>, <<"lt2">>}}

EQ_cv_eq ==
    \E other \in CVOperands :
        /\ cv_last' = [op |-> "eq", self |-> cv_obj[1], arg |-> other,
                       ret |-> ControlledVocabulary__eq__(cv_obj[1], other)]
        /\ UNCHANGED <<cv_class, cv_obj, cvRest>>

EQ_cv_ne ==
    \E other \in CVOperands :
        /\ cv_last' = [op |-> "ne", self |-> cv_obj[1], arg |-> other,
                       ret |-> ControlledVocabulary__ne__(cv_obj[1], other)]
        /\ UNCHANGED <<cv_class, cv_obj, cvRest>>

EQ_lt_eq ==
    \E other \in LTOperands :
        /\ lt_last' = [op |-> "eq", self |-> lt_obj, arg |-> other,
                       ret |-> LinguisticType__eq__(lt_obj, other)]
        /\ UNCHANGED <<lt_obj, con_obj, ltRest>>

EQ_lt_ne ==
    \E other \in LTOperands :
        /\ lt_last' = [op |-> "ne", self |-> lt_obj, arg |-> other,
                       ret |-> LinguisticType__ne__(lt_obj, other)]
        /\ UNCHANGED <<lt_obj, con_obj, ltRest>>

InitEquality ==
    /\ TSIdle /\ TOIdle /\ EFIdle
    /\ cv_class = CVClassAttributes
    /\ cv_obj \in {<<a, b>> : a \in ComparedVocabularies, b \in ComparedVocabularies}
    /\ cv_last = [op |-> "none"]
    /\ lt_obj \in ComparedTypes
    /\ con_obj = NoObject
    /\ lt_last = [op |-> "none"]
NextEquality == EQ_cv_eq \/ EQ_cv_ne \/ EQ_lt_eq \/ EQ_lt_ne
SpecEquality == InitEquality /\ [][NextEquality]_vars

Not(b) == IF b = "True" THEN "False" ELSE "True"

\* C30: equality looks at the actual type of the right operand and != is
\* its negation: a controlled vocabulary equals one with the same cv_id and
\* external reference, a linguistic type equals one with the same ID,
\* constraints and alignability, each equals a str holding its ID, and
\* a != b is True exactly when a == b is not.
C30_EqualityByType ==
    /\ (/\ cv_last.op = "eq"
        /\ \/ /\ cv_last.arg.cls = "ELANControlledVocabulary"
              /\ cv_last.arg.cv_id = cv_last.self.cv_id
              /\ cv_last.arg.ext_ref = cv_last.self.ext_ref
           \/ cv_last.arg = Str(cv_last.self.cv_id)) =>
          cv_last.ret = "True"
    /\ cv_last.op = "ne" =>
          cv_last.ret = Not(ControlledVocabulary__eq__(cv_last.self, cv_last.arg))
    /\ (/\ lt_last.op = "eq"
        /\ \/ /\ lt_last.arg.cls = "ELANLinguisticType"
              /\ lt_last.arg.linguistic_type_id = lt_last.self.linguistic_type_id
              /\ lt_last.arg.constraints = lt_last.self.constraints
              /\ lt_last.arg.time_alignable = lt_last.self.time_alignable
           \/ lt_last.arg = Str(lt_last.self.linguistic_type_id)) =>
          lt_last.ret = "True"
    /\ lt_last.op = "ne" =>
          lt_last.ret = Not(LinguisticType__eq__(lt_last.self, lt_last.arg))

====
